---- MODULE Spec2Model ----
(***************************************************************************)
(* Model of the ICM20948 auxiliary-bus (I2C master) bring-up scripts:      *)
(* banked register access, the Slave-4 one-shot read with its polled       *)
(* completion, the recipe loop of try-all-sequences.py, the one-shot       *)
(* write, and the Slave-0 mirror of the magnetometer into EXT_SENS_DATA    *)
(* as simple-mag-test.py and test-all-sensors-i2c-master.py use them, and  *)
(* test-all-sensors-debug.py with its caching bank select.                 *)
(*                                                                         *)
(* The device is a register file addressed by (bank, register); the bank   *)
(* is whatever was last written to REG_BANK_SEL.  Register 0x17 of bank 3  *)
(* is owned by the hardware: every read of it returns a value chosen by    *)
(* the environment.  Every transport call may raise (OSError).             *)
(***************************************************************************)
EXTENDS Integers, Sequences, FiniteSets, TLC

\* ------------------------------------------------------------------------
\* Bounds of the model (not program constants)
\* ------------------------------------------------------------------------
MaxFaults == 1
MaxCalls == 4
MaxRefresh == 2

\* ------------------------------------------------------------------------
\* Register map (try-all-sequences.py:19-32, test-all-sensors-debug.py:21-49)
\* ------------------------------------------------------------------------
REG_BANK_SEL == 127
PWR_MGMT_1 == 6
PWR_MGMT_2 == 7
USER_CTRL == 3
INT_PIN_CFG == 15
LP_CONFIG == 5
I2C_MST_ODR_CONFIG == 0
I2C_MST_CTRL == 1
I2C_MST_STATUS == 23
I2C_SLV4_ADDR == 19
I2C_SLV4_REG == 20
I2C_SLV4_CTRL == 21
I2C_SLV4_DI == 23
I2C_SLV4_DO == 22
I2C_SLV0_ADDR == 3
I2C_SLV0_REG == 4
I2C_SLV0_CTRL == 5
EXT_SENS_DATA_00 == 59
ACCEL_XOUT_H == 45
GYRO_XOUT_H == 51
GYRO_CONFIG_1 == 1
ACCEL_CONFIG == 20
AK09916_ADDR == 12
WHO_AM_I == 0
AK09916_WIA1 == 0
AK09916_WIA2 == 1
AK09916_ST1 == 16
AK09916_CNTL2 == 49
AK09916_CNTL3 == 50

\* bits
DEVICE_RESET == 128
BIT_I2C_MST_EN == 32
BIT_BYPASS_EN == 2
BIT_SLV4_DONE == 64
BIT_LOST_ARB == 16
BIT_SLV4_NACK == 8
BIT_I2C_READ == 128
BIT_SLAVE_EN == 128
WIA1_VALUE == 72
WIA2_VALUE == 9
BIT_I2C_MST_P_NSR == 16
BIT_DRDY == 1
BIT_I2C_MST_CYCLE == 64

\* loop ceilings and delays
PollCeiling == 50
DimPollCeiling == 30
PollIntervalMs == 10
SettleMs == 100
MirrorLen == 9
SmtReadLen == 8
SmtSamples == 5
AsSamples == 20

Banks == 0..3
NoBank == -1

\* status & mask, for a single-bit mask
BitSet(v, mask) == (v \div mask) % 2 = 1

\* Values the hardware-owned register 0x17 of bank 3 is read as:
\* idle, SLV4_NACK, LOST_ARB, SLV4_DONE, 0x48 (DONE|NACK, also WIA1),
\* 0x50 (DONE|LOST_ARB), 0x09 (WIA2)
CellVals == {0, 8, 16, 64, 72, 80, 9}

\* Registers of the device the scripts write, per bank
Addrs == {I2C_MST_ODR_CONFIG, I2C_MST_CTRL, USER_CTRL, LP_CONFIG, PWR_MGMT_1,
          PWR_MGMT_2, INT_PIN_CFG, I2C_SLV4_ADDR, I2C_SLV4_REG, I2C_SLV4_CTRL,
          I2C_SLV4_DO, I2C_SLV0_REG}

RegKeys == Banks \X Addrs

DevPowerOn == [k \in RegKeys |-> 0]

VARIABLES
    prog,           \* which script / function harness is running
    pc,             \* position of the script
    dev_bank,       \* bank selected in the device (last REG_BANK_SEL >> 4)
    dev,            \* device register file
    mag_srst,       \* AK09916 soft reset received over direct passthrough
    slept,          \* ms slept since the last USER_CTRL write, capped at SettleMs
    faults,         \* transport errors raised so far
    current_bank,   \* test-all-sensors-debug.py: cached bank, NoBank = None
    calls,          \* harness: calls made so far
    bank_writes,    \* harness: REG_BANK_SEL writes attempted so far
    last_call,      \* harness: the last call and what it did
    slv4_pc,        \* one-shot read: "idle", "poll", "ret", "raised"
    i,              \* one-shot read: loop index of the next iteration
    polls,          \* status reads attempted by the current poll
    first_done,     \* index of the first status read showing SLV4_DONE, 0 = none
    arb_seen,       \* a status read showed LOST_ARB before any showed SLV4_DONE
    read_after_arb, \* a status read was made after that one
    nack_seen,      \* a status read showed SLV4_NACK before any showed SLV4_DONE
    di_read,        \* value the last read of I2C_SLV4_DI returned, NoData = none
    ret,            \* what the one-shot read returned
    reported,       \* debug-i2c-master.py: outcomes printed for the poll
    seq,            \* try-all-sequences.py: index of the recipe being run
    step,           \* index of the next step of that recipe
    ran,            \* steps of the current recipe called so far, in call order
    step_raised,    \* the step of the current recipe that raised, 0 = none
    started,        \* recipes whose first step has been called
    verdict,        \* per recipe: "none", "pass", "mismatch", "timeout"
    lane_log,       \* lane registers at each trigger of Slave 4 by the last call
    both_on,        \* the device has held the bypass and master-enable bits together
    wia,            \* simple-mag-test.py test_mag_whoami: wia1, wia2
    wr_failed,      \* downstream registers whose one-shot write timed out
    ext,            \* EXT_SENS_DATA_00.. of bank 0, the mirrored buffer
    refreshes,      \* refreshes of the buffer the hardware has made
    sample,         \* bytes of the buffer the host read in this iteration
    sample_gen,     \* per byte of sample: refreshes made before it was read
    n_sample,       \* index of the current iteration of the read loop
    valid_count,    \* test-all-sensors-i2c-master.py: samples with data ready
    i2c_mst_status, \* debug-i2c-master.py: the status byte last read by the poll
    acc_log,        \* register accesses of the device made by the last call, in order
    cell_kept,      \* one-shot read: the data read returned what the last status read did
    xfer_done,      \* one-shot write: triggers of the call whose transfer has completed
    identity,       \* the identity check of the downstream device the script has made
    n_verify        \* try-all-sequences.py: calls of test_slv4_read made so far

slv4_vars == <<slv4_pc, i, polls, first_done, arb_seen, read_after_arb, nack_seen,
               di_read, ret, reported>>

vars == <<prog, pc, dev_bank, dev, mag_srst, slept, faults, current_bank,
          calls, bank_writes, last_call, slv4_pc, i, polls, first_done, arb_seen,
          read_after_arb, nack_seen, di_read, ret, reported,
          seq, step, ran, step_raised, started, verdict,
          lane_log, both_on, wia, wr_failed, ext, refreshes, sample, sample_gen, n_sample,
          valid_count,
          i2c_mst_status,
          acc_log,
          cell_kept,
          xfer_done,
          identity,
          n_verify>>

mirror_vars == <<ext, refreshes, sample, sample_gen, n_sample, valid_count>>

host_vars == <<wia, wr_failed>>

seq_vars == <<seq, step, ran, step_raised, started, verdict>>

\* ------------------------------------------------------------------------
\* Host + device state threaded through one call.  fail_at = k > 0: the k-th
\* transport call from here raises; raised: an exception is propagating, the
\* rest of the call is skipped.
\* ------------------------------------------------------------------------
Here(f) ==
    [bank |-> dev_bank, regs |-> dev, srst |-> mag_srst, slept |-> slept,
     cache |-> current_bank, fail_at |-> f, raised |-> FALSE,
     attempts |-> 0, bank_attempts |-> 0, trig |-> <<>>, both |-> both_on,
     acc |-> <<>>]

Min(a, b) == IF a < b THEN a ELSE b

\* the one-shot lane as the hardware sees it when its enable bit is written,
\* with USER_CTRL and the ms slept since USER_CTRL was written
LaneSnapshot(st, ctrl) ==
    [addr |-> st.regs[<<3, I2C_SLV4_ADDR>>], reg |-> st.regs[<<3, I2C_SLV4_REG>>],
     do |-> st.regs[<<3, I2C_SLV4_DO>>], ctrl |-> ctrl,
     user_ctrl |-> st.regs[<<0, USER_CTRL>>], slept |-> st.slept]

\* What the device does with a write that reached it.  A write of the reset
\* pulse to PWR_MGMT_1 of bank 0 resets the device: registers return to
\* their power-on values and bank 0 is selected.
DeviceStore(st, reg, value) ==
    IF reg = REG_BANK_SEL
    THEN [st EXCEPT !.bank = value \div 16]
    ELSE IF reg = PWR_MGMT_1 /\ st.bank = 0 /\ BitSet(value, DEVICE_RESET)
    THEN [st EXCEPT !.bank = 0, !.regs = DevPowerOn, !.slept = 0]
    ELSE IF <<st.bank, reg>> \in RegKeys
    THEN [st EXCEPT !.regs[<<st.bank, reg>>] = value,
                    !.slept = IF reg = USER_CTRL /\ st.bank = 0 THEN 0 ELSE @,
                    !.trig = IF st.bank = 3 /\ reg = I2C_SLV4_CTRL
                                /\ BitSet(value, BIT_SLAVE_EN)
                             THEN Append(@, LaneSnapshot(st, value))
                             ELSE @]
    ELSE st

\* bypass (INT_PIN_CFG bit 1) and I2C master enable (USER_CTRL bit 5) both set
BothOn(regs) ==
    /\ BitSet(regs[<<0, INT_PIN_CFG>>], BIT_BYPASS_EN)
    /\ BitSet(regs[<<0, USER_CTRL>>], BIT_I2C_MST_EN)

\* an access of register reg that reached the device: the bank it landed in,
\* the bank the host had cached and whether the master was enabled then
Access(st, reg, wr) ==
    [bank |-> st.bank, reg |-> reg, wr |-> wr, cache |-> st.cache,
     en |-> BitSet(st.regs[<<0, USER_CTRL>>], BIT_I2C_MST_EN)]

\* the access is added to those of the call; bank selects are not register
\* accesses of a bank
Logged(st, reg, wr) ==
    IF reg = REG_BANK_SEL THEN st ELSE [st EXCEPT !.acc = Append(@, Access(st, reg, wr))]

\* a write that reached the device, and whether it left both bits set
DeviceWrite(st, reg, value) ==
    LET w == DeviceStore(st, reg, value)
    IN  [w EXCEPT !.both = @ \/ BothOn(w.regs)]

\* bus.write_byte_data(ICM20948_ADDR, reg, value)
write_byte_data(st, reg, value) ==
    IF st.raised THEN st
    ELSE LET a == [st EXCEPT !.attempts = @ + 1,
                             !.bank_attempts = IF reg = REG_BANK_SEL THEN @ + 1 ELSE @]
         IN  IF st.fail_at = 1
             THEN [a EXCEPT !.raised = TRUE, !.fail_at = 0]
             ELSE DeviceWrite(Logged([a EXCEPT !.fail_at = IF @ > 0 THEN @ - 1 ELSE 0],
                                     reg, TRUE),
                              reg, value)

\* bus.write_byte_data(AK09916_ADDR, reg, value): reaches the magnetometer
\* only while the bypass bit of INT_PIN_CFG is set
mag_write_byte_data(st, reg, value) ==
    IF st.raised THEN st
    ELSE LET a == [st EXCEPT !.attempts = @ + 1] IN
         IF st.fail_at = 1 \/ ~BitSet(st.regs[<<0, INT_PIN_CFG>>], BIT_BYPASS_EN)
         THEN [a EXCEPT !.raised = TRUE, !.fail_at = IF st.fail_at = 1 THEN 0 ELSE @]
         ELSE [a EXCEPT !.fail_at = IF @ > 0 THEN @ - 1 ELSE 0,
                        !.srst = @ \/ (reg = AK09916_CNTL3 /\ value = 1)]

\* bus.read_byte_data(ICM20948_ADDR, reg) where the value read is not used
\* by the caller for anything but printing: the call can only raise
read_byte_data(st, reg) ==
    IF st.raised THEN st
    ELSE LET a == [st EXCEPT !.attempts = @ + 1]
         IN  IF st.fail_at = 1
             THEN [a EXCEPT !.raised = TRUE, !.fail_at = 0]
             ELSE Logged([a EXCEPT !.fail_at = IF @ > 0 THEN @ - 1 ELSE 0], reg, FALSE)

\* faulty variant of sleep: half the time asked for is slept
sleep_half(st, ms) ==
    IF st.raised THEN st ELSE [st EXCEPT !.slept = Min(@ + ms \div 2, SettleMs)]

\* time.sleep(ms / 1000)
sleep(st, ms) ==
    IF st.raised THEN st ELSE [st EXCEPT !.slept = Min(@ + ms, SettleMs)]

\* try-all-sequences.py set_bank: no cache, one write per call
set_bank(st, bank) == write_byte_data(st, REG_BANK_SEL, bank * 16)

write_reg(st, reg, value) == write_byte_data(st, reg, value)

read_reg(st, reg) == read_byte_data(st, reg)

\* faulty variant of set_bank_cached: the cache is compared but never updated
set_bank_cached_no_update(st, bank) ==
    IF st.raised THEN st
    ELSE IF st.cache # bank
    THEN LET w == write_byte_data(st, REG_BANK_SEL, bank * 16)
         IN  IF w.raised THEN w ELSE sleep(w, 1)
    ELSE st

\* faulty variant of set_bank_cached: the cache is updated before the write
set_bank_cached_early_update(st, bank) ==
    IF st.raised THEN st
    ELSE IF st.cache # bank
    THEN LET w == write_byte_data([st EXCEPT !.cache = bank], REG_BANK_SEL, bank * 16)
         IN  IF w.raised THEN w ELSE sleep(w, 1)
    ELSE st

\* test-all-sensors-debug.py set_bank: writes only when the cache differs
set_bank_cached(st, bank) ==
    IF st.raised THEN st
    ELSE IF st.cache # bank
    THEN LET w == write_byte_data(st, REG_BANK_SEL, bank * 16)
         IN  IF w.raised THEN w ELSE sleep([w EXCEPT !.cache = bank], 1)
    ELSE st

\* faulty variant of reset_device: the reset pulse is not written
reset_device_no_pulse(st) ==
    sleep(write_reg(sleep(set_bank(st, 0), 100), PWR_MGMT_1, 1), 10)

\* faulty variant of reset_device: bank 0 is not selected first
reset_device_no_bank(st) ==
    sleep(write_reg(sleep(write_reg(st, PWR_MGMT_1, 128), 100), PWR_MGMT_1, 1), 10)

\* try-all-sequences.py reset_device
reset_device(st) ==
    sleep(write_reg(sleep(write_reg(set_bank(st, 0), PWR_MGMT_1, 128), 100),
                    PWR_MGMT_1, 1), 10)

\* test-all-sensors-debug.py write_and_verify: write, 5 ms, read back
write_and_verify(st, reg, value) == read_reg(sleep(write_reg(st, reg, value), 5), reg)

\* test-all-sensors-debug.py STEP 1: set_bank(0), reset pulse, wake
debug_reset(st) ==
    sleep(write_and_verify(
              sleep(write_and_verify(set_bank_cached(st, 0), PWR_MGMT_1, 128), 100),
              PWR_MGMT_1, 1), 10)

\* ------------------------------------------------------------------------
\* Commit the state a call leaves behind
\* ------------------------------------------------------------------------
Commit(st) ==
    /\ dev_bank' = st.bank
    /\ dev' = st.regs
    /\ mag_srst' = st.srst
    /\ slept' = st.slept
    /\ current_bank' = st.cache
    /\ faults' = IF st.raised THEN faults + 1 ELSE faults
    /\ lane_log' = st.trig
    /\ both_on' = st.both
    /\ acc_log' = st.acc

\* f = 0: no transport error; f > 0 needs a fault left to inject
FaultChoice(f) == f = 0 \/ faults < MaxFaults

\* the injected fault has been consumed (it hit a call that was made)
Consumed(f, st) == f = 0 \/ st.raised

Progs == {"bank_cached", "bank_uncached", "slv4_read", "debug_i2c_master",
          "try_all_sequences", "simple_mag_test", "all_sensors", "passthrough",
          "all_sensors_debug", "mag_bypass"}

\* not a byte: no value read
NoData == 0 - 1

NoRet == [success |-> FALSE, data |-> NoData, ms |-> 0]

NoWia == [w1 |-> NoData, w2 |-> NoData]

\* no identity check made yet
NoIdentity == [checked |-> FALSE, done |-> FALSE, passed |-> FALSE]

\* an identity check: whether a status read of its one-shot read(s) had shown
\* SLV4_DONE, and whether the script took the byte(s) read as the identity
IdentityCheck(passed) == [checked |-> TRUE, done |-> first_done > 0, passed |-> passed]

\* the mirrored buffer before the continuous lane has deposited anything
PreConfig == [k \in 1..MirrorLen |-> 0]

\* INT_PIN_CFG as an earlier user of the device may have left it: nothing,
\* bypass, INT1 latched (0x20), latched with bypass, INT1 active low (0x80)
PriorCfg == {0, 2, 32, 34, 128}

NoCall == [op |-> "none", n |-> NoBank, cache_before |-> NoBank,
           bank_attempts |-> 0, raised |-> FALSE]

Init ==
    /\ prog \in Progs
    /\ pc = "start"
    /\ dev_bank \in Banks
    /\ (prog = "passthrough") => dev_bank = 0
    /\ dev \in {[DevPowerOn EXCEPT ![<<0, INT_PIN_CFG>>] = v] : v \in PriorCfg}
    /\ (prog # "passthrough") => dev = DevPowerOn
    /\ mag_srst = FALSE
    /\ slept = 0
    /\ faults = 0
    /\ current_bank = NoBank
    /\ calls = 0
    /\ bank_writes = 0
    /\ last_call = NoCall
    /\ slv4_pc = "idle"
    /\ i = 0
    /\ polls = 0
    /\ first_done = 0
    /\ arb_seen = FALSE
    /\ read_after_arb = FALSE
    /\ nack_seen = FALSE
    /\ di_read = NoData
    /\ ret = NoRet
    /\ reported = {}
    /\ seq = 1
    /\ step = 1
    /\ ran = <<>>
    /\ step_raised = 0
    /\ started = {}
    /\ verdict = [r \in 1..5 |-> "none"]
    /\ lane_log = <<>>
    /\ both_on = FALSE
    /\ wia = NoWia
    /\ wr_failed = {}
    /\ ext = PreConfig
    /\ refreshes = 0
    /\ sample = <<>>
    /\ sample_gen = <<>>
    /\ n_sample = 0
    /\ valid_count = 0
    /\ i2c_mst_status = NoData
    /\ acc_log = <<>>
    /\ cell_kept = FALSE
    /\ xfer_done = 0
    /\ identity = NoIdentity
    /\ n_verify = 0

\* ------------------------------------------------------------------------
\* Harness of the bank-select functions: any call order, any argument
\* ------------------------------------------------------------------------
HarnessCall(op, n, st) ==
    /\ calls' = calls + 1
    /\ bank_writes' = bank_writes + st.bank_attempts
    /\ last_call' = [op |-> op, n |-> n, cache_before |-> current_bank,
                     bank_attempts |-> st.bank_attempts, raised |-> st.raised]
    /\ Commit(st)
    /\ UNCHANGED <<prog, pc>>
    /\ UNCHANGED slv4_vars
    /\ UNCHANGED seq_vars
    /\ UNCHANGED mirror_vars
    /\ UNCHANGED host_vars

CallSetBankCached ==
    /\ prog = "bank_cached"
    /\ calls < MaxCalls
    /\ \E n \in Banks, f \in 0..1 :
        /\ FaultChoice(f)
        /\ LET st == set_bank_cached(Here(f), n) IN
            /\ Consumed(f, st)
            /\ HarnessCall("set_bank", n, st)
    /\ UNCHANGED i2c_mst_status
    /\ UNCHANGED cell_kept
    /\ UNCHANGED xfer_done
    /\ UNCHANGED identity
    /\ UNCHANGED n_verify

CallSetBank ==
    /\ prog = "bank_uncached"
    /\ calls < MaxCalls
    /\ \E n \in Banks, f \in 0..1 :
        /\ FaultChoice(f)
        /\ LET st == set_bank(Here(f), n) IN
            /\ Consumed(f, st)
            /\ HarnessCall("set_bank", n, st)
    /\ UNCHANGED i2c_mst_status
    /\ UNCHANGED cell_kept
    /\ UNCHANGED xfer_done
    /\ UNCHANGED identity
    /\ UNCHANGED n_verify

CallDebugReset ==
    /\ prog = "bank_cached"
    /\ calls < MaxCalls
    /\ \E f \in 0..5 :
        /\ FaultChoice(f)
        /\ LET st == debug_reset(Here(f)) IN
            /\ Consumed(f, st)
            /\ HarnessCall("reset", 0, st)
    /\ UNCHANGED i2c_mst_status
    /\ UNCHANGED cell_kept
    /\ UNCHANGED xfer_done
    /\ UNCHANGED identity
    /\ UNCHANGED n_verify

CallResetDevice ==
    /\ prog = "bank_uncached"
    /\ calls < MaxCalls
    /\ \E f \in 0..3 :
        /\ FaultChoice(f)
        /\ LET st == reset_device(Here(f)) IN
            /\ Consumed(f, st)
            /\ HarnessCall("reset", 0, st)
    /\ UNCHANGED i2c_mst_status
    /\ UNCHANGED cell_kept
    /\ UNCHANGED xfer_done
    /\ UNCHANGED identity
    /\ UNCHANGED n_verify

\* ------------------------------------------------------------------------
\* Harness of the passthrough writes of test-mag-bypass.py, bank 0 selected
\* (line 47): either write, in any order, on any prior INT_PIN_CFG
\* ------------------------------------------------------------------------
\* lines 58-62
enable_bypass(st) == sleep(write_byte_data(st, INT_PIN_CFG, 2), 50)

\* lines 175-178
disable_bypass(st) == write_byte_data(st, INT_PIN_CFG, 0)

CallEnableBypass ==
    /\ prog = "passthrough"
    /\ calls < MaxCalls
    /\ \E f \in 0..1 :
        /\ FaultChoice(f)
        /\ LET st == enable_bypass(Here(f)) IN
            /\ Consumed(f, st)
            /\ HarnessCall("enable_bypass", 1, st)
    /\ UNCHANGED i2c_mst_status
    /\ UNCHANGED cell_kept
    /\ UNCHANGED xfer_done
    /\ UNCHANGED identity
    /\ UNCHANGED n_verify

CallDisableBypass ==
    /\ prog = "passthrough"
    /\ calls < MaxCalls
    /\ \E f \in 0..1 :
        /\ FaultChoice(f)
        /\ LET st == disable_bypass(Here(f)) IN
            /\ Consumed(f, st)
            /\ HarnessCall("disable_bypass", 0, st)
    /\ UNCHANGED i2c_mst_status
    /\ UNCHANGED cell_kept
    /\ UNCHANGED xfer_done
    /\ UNCHANGED identity
    /\ UNCHANGED n_verify

\* ------------------------------------------------------------------------
\* The one-shot (Slave 4) read: test_slv4_read of try-all-sequences.py and
\* test-all-sensors-i2c-master.py
\* ------------------------------------------------------------------------
\* faulty variant of slv4_config: the lane's enable bit is written a second time
slv4_config_retrigger(st, addr, reg) ==
    write_reg(write_reg(write_reg(write_reg(set_bank(st, 3),
                                            I2C_SLV4_ADDR, BIT_I2C_READ + addr),
                                  I2C_SLV4_REG, reg),
                        I2C_SLV4_CTRL, BIT_SLAVE_EN),
              I2C_SLV4_CTRL, BIT_SLAVE_EN)

\* lines 55-58: select bank 3, program the lane, set its enable bit
slv4_config(st, addr, reg) ==
    write_reg(write_reg(write_reg(set_bank(st, 3),
                                  I2C_SLV4_ADDR, BIT_I2C_READ + addr),
                        I2C_SLV4_REG, reg),
              I2C_SLV4_CTRL, BIT_SLAVE_EN)

\* a read of register reg made by a poll, in the bank selected now
PollRead(reg) == Access(Here(0), reg, FALSE)

\* what the status reads of a poll have shown, updated by a read of value s
ObserveStatus(s) ==
    /\ polls' = polls + 1
    /\ first_done' = IF first_done = 0 /\ BitSet(s, BIT_SLV4_DONE)
                     THEN polls + 1 ELSE first_done
    /\ arb_seen' = (arb_seen \/ (first_done = 0 /\ BitSet(s, BIT_LOST_ARB)
                                 /\ ~BitSet(s, BIT_SLV4_DONE)))
    /\ read_after_arb' = (read_after_arb \/ arb_seen)
    /\ nack_seen' = (nack_seen \/ (first_done = 0 /\ BitSet(s, BIT_SLV4_NACK)
                                   /\ ~BitSet(s, BIT_SLV4_DONE)))

StartPoll ==
    /\ i' = 0
    /\ polls' = 0
    /\ first_done' = 0
    /\ arb_seen' = FALSE
    /\ read_after_arb' = FALSE
    /\ nack_seen' = FALSE
    /\ di_read' = NoData
    /\ ret' = NoRet
    /\ reported' = {}
    /\ cell_kept' = FALSE
    /\ xfer_done' = 0

\* faulty variant of slv4_poll_iter: the status byte is returned as the data
slv4_poll_iter_returns_status(k, status, data) ==
    IF BitSet(status, BIT_SLV4_DONE)
    THEN [pc |-> "ret", read_di |-> TRUE,
          ret |-> [success |-> TRUE, data |-> status, ms |-> (k + 1) * PollIntervalMs]]
    ELSE IF k + 1 < PollCeiling
    THEN [pc |-> "poll", read_di |-> FALSE, ret |-> NoRet]
    ELSE [pc |-> "ret", read_di |-> FALSE,
          ret |-> [success |-> FALSE, data |-> 0, ms |-> 500]]

\* faulty variant of slv4_poll_iter: the loop gives up one iteration early
slv4_poll_iter_short(k, status, data) ==
    IF BitSet(status, BIT_SLV4_DONE)
    THEN [pc |-> "ret", read_di |-> TRUE,
          ret |-> [success |-> TRUE, data |-> data, ms |-> (k + 1) * PollIntervalMs]]
    ELSE IF k + 2 < PollCeiling
    THEN [pc |-> "poll", read_di |-> FALSE, ret |-> NoRet]
    ELSE [pc |-> "ret", read_di |-> FALSE,
          ret |-> [success |-> FALSE, data |-> 0, ms |-> 500]]

\* faulty variant of slv4_poll_iter: completion is taken from the NACK bit
slv4_poll_iter_nack_bit(k, status, data) ==
    IF BitSet(status, BIT_SLV4_NACK)
    THEN [pc |-> "ret", read_di |-> TRUE,
          ret |-> [success |-> TRUE, data |-> data, ms |-> (k + 1) * PollIntervalMs]]
    ELSE IF k + 1 < PollCeiling
    THEN [pc |-> "poll", read_di |-> FALSE, ret |-> NoRet]
    ELSE [pc |-> "ret", read_di |-> FALSE,
          ret |-> [success |-> FALSE, data |-> 0, ms |-> 500]]

\* faulty variant of slv4_poll_iter: the loop runs one iteration too many
slv4_poll_iter_long(k, status, data) ==
    IF BitSet(status, BIT_SLV4_DONE)
    THEN [pc |-> "ret", read_di |-> TRUE,
          ret |-> [success |-> TRUE, data |-> data, ms |-> (k + 1) * PollIntervalMs]]
    ELSE IF k < PollCeiling
    THEN [pc |-> "poll", read_di |-> FALSE, ret |-> NoRet]
    ELSE [pc |-> "ret", read_di |-> FALSE,
          ret |-> [success |-> FALSE, data |-> 0, ms |-> 500]]

\* lines 61-68: iteration k of the loop, given the status byte read and the
\* byte a read of I2C_SLV4_DI returns; falling out of the loop returns
\* (False, 0x00, 500)
slv4_poll_iter(k, status, data) ==
    IF BitSet(status, BIT_SLV4_DONE)
    THEN [pc |-> "ret", read_di |-> TRUE,
          ret |-> [success |-> TRUE, data |-> data, ms |-> (k + 1) * PollIntervalMs]]
    ELSE IF k + 1 < PollCeiling
    THEN [pc |-> "poll", read_di |-> FALSE, ret |-> NoRet]
    ELSE [pc |-> "ret", read_di |-> FALSE,
          ret |-> [success |-> FALSE, data |-> 0, ms |-> 500]]

\* test_slv4_read, lines 55-58
Slv4Config(addr, reg) ==
    /\ slv4_pc = "idle"
    /\ \E f \in 0..4 :
        /\ FaultChoice(f)
        /\ LET st == slv4_config(Here(f), addr, reg) IN
            /\ Consumed(f, st)
            /\ Commit(st)
            /\ slv4_pc' = IF st.raised THEN "raised" ELSE "poll"
    /\ StartPoll

\* test_slv4_read, one iteration of lines 61-66 (and line 68 after the last)
Slv4Poll ==
    /\ slv4_pc = "poll"
    /\ slept' = Min(slept + PollIntervalMs, SettleMs)
    /\ \/ \E s \in CellVals, d \in CellVals :
            LET r == slv4_poll_iter(i, s, d) IN
            /\ ObserveStatus(s)
            /\ r.read_di \/ d = 0
            /\ \/ /\ slv4_pc' = r.pc
                  /\ ret' = r.ret
                  /\ di_read' = IF r.read_di THEN d ELSE di_read
                  /\ cell_kept' = (r.read_di /\ d = s)
                  /\ i' = IF r.pc = "poll" THEN i + 1 ELSE i
                  /\ faults' = faults
                  /\ acc_log' = IF r.read_di
                                 THEN <<PollRead(I2C_MST_STATUS), PollRead(I2C_SLV4_DI)>>
                                 ELSE <<PollRead(I2C_MST_STATUS)>>
               \/ /\ r.read_di            \* the read of I2C_SLV4_DI raises
                  /\ faults < MaxFaults
                  /\ slv4_pc' = "raised"
                  /\ faults' = faults + 1
                  /\ acc_log' = <<PollRead(I2C_MST_STATUS)>>
                  /\ UNCHANGED <<ret, di_read, i, cell_kept>>
       \/ /\ faults < MaxFaults           \* the read of I2C_MST_STATUS raises
          /\ polls' = polls + 1
          /\ slv4_pc' = "raised"
          /\ faults' = faults + 1
          /\ acc_log' = <<>>
          /\ UNCHANGED <<first_done, arb_seen, read_after_arb, nack_seen,
                         ret, di_read, i, cell_kept>>
    /\ UNCHANGED <<dev_bank, dev, mag_srst, current_bank, reported, lane_log, both_on>>

\* harness: one call test_slv4_read() / test_slv4_read(AK09916_ADDR, reg)
CallSlv4Read ==
    /\ prog = "slv4_read"
    /\ pc = "start"
    /\ \E reg \in {0, 1} : Slv4Config(AK09916_ADDR, reg)
    /\ pc' = "called"
    /\ UNCHANGED <<prog, calls, bank_writes, last_call>>
    /\ UNCHANGED seq_vars
    /\ UNCHANGED mirror_vars
    /\ UNCHANGED host_vars
    /\ UNCHANGED i2c_mst_status
    /\ UNCHANGED identity
    /\ UNCHANGED n_verify

Slv4PollStep ==
    /\ prog = "slv4_read"
    /\ Slv4Poll
    /\ UNCHANGED <<prog, pc, calls, bank_writes, last_call>>
    /\ UNCHANGED seq_vars
    /\ UNCHANGED mirror_vars
    /\ UNCHANGED host_vars
    /\ UNCHANGED i2c_mst_status
    /\ UNCHANGED xfer_done
    /\ UNCHANGED identity
    /\ UNCHANGED n_verify

\* ------------------------------------------------------------------------
\* debug-i2c-master.py, step 4: Slave 4 read of WIA1 with a 300 ms poll
\* ------------------------------------------------------------------------
\* faulty variant of dim_poll_iter: LOST_ARB is tested before SLV4_DONE
dim_poll_iter_arb_first(k, status) ==
    IF BitSet(status, BIT_LOST_ARB)
    THEN [pc |-> "dim_after", done |-> FALSE, report |-> {"lost_arb"}]
    ELSE IF BitSet(status, BIT_SLV4_DONE)
    THEN [pc |-> "dim_after", done |-> TRUE, report |-> {"done"}]
    ELSE IF k + 1 < DimPollCeiling
    THEN [pc |-> "dim_poll", done |-> FALSE, report |-> {}]
    ELSE [pc |-> "dim_after", done |-> FALSE, report |-> {}]

\* lines 138-147: iteration k of the loop given the status byte read
dim_poll_iter(k, status) ==
    IF BitSet(status, BIT_SLV4_DONE)
    THEN [pc |-> "dim_after", done |-> TRUE, report |-> {"done"}]
    ELSE IF BitSet(status, BIT_LOST_ARB)
    THEN [pc |-> "dim_after", done |-> FALSE, report |-> {"lost_arb"}]
    ELSE IF k + 1 < DimPollCeiling
    THEN [pc |-> "dim_poll", done |-> FALSE, report |-> {}]
    ELSE [pc |-> "dim_after", done |-> FALSE, report |-> {}]

\* lines 160-167: verdict printed from the data byte and the last status
dim_verdict(slv4_di, done) ==
    IF slv4_di = WIA1_VALUE /\ done THEN "success"
    ELSE IF slv4_di = 0 THEN "failure_zero"
    ELSE "unexpected"

\* lines 129-133
DimConfig ==
    /\ prog = "debug_i2c_master"
    /\ pc = "start"
    /\ \E f \in 0..4 :
        /\ FaultChoice(f)
        /\ LET st == slv4_config(Here(f), AK09916_ADDR, 0) IN
            /\ Consumed(f, st)
            /\ Commit(st)
            /\ pc' = IF st.raised THEN "raised" ELSE "dim_poll"
    /\ StartPoll
    /\ UNCHANGED <<prog, slv4_pc, calls, bank_writes, last_call>>
    /\ UNCHANGED seq_vars
    /\ UNCHANGED mirror_vars
    /\ UNCHANGED host_vars
    /\ UNCHANGED i2c_mst_status
    /\ UNCHANGED identity
    /\ UNCHANGED n_verify

\* lines 138-147, one iteration
DimPoll ==
    /\ prog = "debug_i2c_master"
    /\ pc = "dim_poll"
    /\ slept' = Min(slept + PollIntervalMs, SettleMs)
    /\ \/ \E s \in CellVals :
            LET r == dim_poll_iter(i, s) IN
            /\ ObserveStatus(s)
            /\ pc' = r.pc
            /\ ret' = [ret EXCEPT !.success = r.done,
                                  !.ms = (i + 1) * PollIntervalMs]
            /\ reported' = reported \cup r.report
            /\ i' = IF r.pc = "dim_poll" THEN i + 1 ELSE i
            /\ i2c_mst_status' = s
            /\ faults' = faults
            /\ acc_log' = <<PollRead(I2C_MST_STATUS)>>
       \/ /\ faults < MaxFaults           \* the read of I2C_MST_STATUS raises
          /\ polls' = polls + 1
          /\ pc' = "raised"
          /\ faults' = faults + 1
          /\ acc_log' = <<>>
          /\ UNCHANGED <<first_done, arb_seen, read_after_arb, nack_seen,
                         ret, reported, i, i2c_mst_status>>
    /\ UNCHANGED <<prog, dev_bank, dev, mag_srst, current_bank, slv4_pc, di_read,
                   calls, bank_writes, last_call, lane_log, both_on>>
    /\ UNCHANGED seq_vars
    /\ UNCHANGED mirror_vars
    /\ UNCHANGED host_vars
    /\ UNCHANGED cell_kept
    /\ UNCHANGED xfer_done
    /\ UNCHANGED identity
    /\ UNCHANGED n_verify

\* lines 149-167: timeout report, unconditional read of I2C_SLV4_DI, verdict
DimAfter ==
    /\ prog = "debug_i2c_master"
    /\ pc = "dim_after"
    /\ \/ \E d \in CellVals :
            /\ di_read' = d
            /\ ret' = [ret EXCEPT !.data = d]
            /\ reported' = reported
                            \cup (IF ~ret.success THEN {"timeout"} ELSE {})
                            \cup {dim_verdict(d, ret.success)}
            /\ pc' = "dim_end"
            /\ faults' = faults
            /\ acc_log' = <<PollRead(I2C_SLV4_DI)>>
       \/ /\ faults < MaxFaults           \* the read of I2C_SLV4_DI raises
          /\ reported' = reported \cup (IF ~ret.success THEN {"timeout"} ELSE {})
          /\ pc' = "raised"
          /\ faults' = faults + 1
          /\ acc_log' = <<>>
          /\ UNCHANGED <<ret, di_read>>
    /\ UNCHANGED <<prog, dev_bank, dev, mag_srst, slept, current_bank, slv4_pc, i,
                   polls, first_done, arb_seen, read_after_arb, nack_seen,
                   calls, bank_writes, last_call, lane_log, both_on>>
    /\ UNCHANGED seq_vars
    /\ UNCHANGED mirror_vars
    /\ UNCHANGED host_vars
    /\ UNCHANGED i2c_mst_status
    /\ UNCHANGED cell_kept
    /\ UNCHANGED xfer_done
    /\ UNCHANGED identity
    /\ UNCHANGED n_verify

\* ------------------------------------------------------------------------
\* simple-mag-test.py: main() of the ICM20948 class
\* ------------------------------------------------------------------------
\* lines 80-85; the comparison of the byte read with 0xEA is the caller's input
check_whoami(st) == read_reg(set_bank(st, 0), 0)

\* lines 87-97
init_basic(st) ==
    sleep(write_reg(sleep(write_reg(set_bank(st, 0), PWR_MGMT_1, 128), 100),
                    PWR_MGMT_1, 1), 10)

\* lines 99-132; lp_config is the byte the read of line 111 returned
setup_mag_i2c_master(st, lp_config) ==
    LET a == read_reg(sleep(write_reg(set_bank(st, 0), INT_PIN_CFG, 0), 10),
                      LP_CONFIG)
        b == IF BitSet(lp_config, BIT_I2C_MST_CYCLE)
             THEN write_reg(a, LP_CONFIG, lp_config - BIT_I2C_MST_CYCLE)
             ELSE a
        c == write_reg(write_reg(set_bank(b, 3), I2C_MST_ODR_CONFIG, 4),
                       I2C_MST_CTRL, 7 + BIT_I2C_MST_P_NSR)
    IN  sleep(write_reg(set_bank(c, 0), USER_CTRL, BIT_I2C_MST_EN), 100)

\* lines 134-148: program the lane, wait 20 ms, read I2C_SLV4_DI
read_mag_reg_via_slv4(st, mag_reg) ==
    read_reg(sleep(slv4_config(st, AK09916_ADDR, mag_reg), 20), I2C_SLV4_DI)

\* lines 150-161
write_mag_reg_via_slv4(st, mag_reg, value) ==
    sleep(write_reg(write_reg(write_reg(write_reg(set_bank(st, 3),
                                                  I2C_SLV4_ADDR, AK09916_ADDR),
                                        I2C_SLV4_REG, mag_reg),
                              I2C_SLV4_DO, value),
                    I2C_SLV4_CTRL, BIT_SLAVE_EN), 20)

\* lines 190-204: one address of the scan, registers 0x00 and 0x01
scan_addr(st, addr) ==
    LET a == write_reg(write_reg(write_reg(st, I2C_SLV4_ADDR, BIT_I2C_READ + addr),
                                 I2C_SLV4_REG, 0),
                       I2C_SLV4_CTRL, BIT_SLAVE_EN)
        b == read_reg(sleep(a, 50), I2C_SLV4_DI)
        c == write_reg(write_reg(b, I2C_SLV4_REG, 1), I2C_SLV4_CTRL, BIT_SLAVE_EN)
    IN  read_reg(sleep(c, 50), I2C_SLV4_DI)

\* lines 183-215
scan_i2c_addresses(st) ==
    scan_addr(scan_addr(scan_addr(scan_addr(set_bank(st, 3), 12), 13), 14), 15)

\* lines 173-181: test_mag_whoami returns True for "success" alone
whoami_verdict(wia1, wia2) ==
    IF wia1 = WIA1_VALUE /\ wia2 = WIA2_VALUE THEN "success"
    ELSE IF wia1 = 0 /\ wia2 = 0 THEN "not_responding"
    ELSE "unexpected"

\* faulty variant of slv0_config: Slave 0 is told to mirror one byte only
slv0_config_one_byte(st) ==
    write_reg(write_reg(write_reg(set_bank(st, 3),
                                  I2C_SLV0_ADDR, BIT_I2C_READ + AK09916_ADDR),
                        I2C_SLV0_REG, AK09916_ST1),
              I2C_SLV0_CTRL, BIT_SLAVE_EN + 1)

\* lines 230-236: Slave 0 mirrors nine bytes from ST1 on
slv0_config(st) ==
    write_reg(write_reg(write_reg(set_bank(st, 3),
                                  I2C_SLV0_ADDR, BIT_I2C_READ + AK09916_ADDR),
                        I2C_SLV0_REG, AK09916_ST1),
              I2C_SLV0_CTRL, BIT_SLAVE_EN + 9)

\* what a read of register reg returns with bank selected: the mirrored
\* buffer lives at EXT_SENS_DATA_00.. of bank 0
MirrorRead(bank, reg, buf) ==
    IF bank = 0 /\ reg >= EXT_SENS_DATA_00 /\ reg < EXT_SENS_DATA_00 + MirrorLen
    THEN buf[reg - EXT_SENS_DATA_00 + 1]
    ELSE 0

\* faulty variant of smt_read_byte: bank 0 is not selected before the reads
smt_read_byte_no_bank(st, k) == read_reg(st, EXT_SENS_DATA_00 + k - 1)

\* lines 241-250: the k-th read of an iteration; set_bank(0) precedes the first
smt_read_byte(st, k) ==
    read_reg(IF k = 1 THEN set_bank(st, 0) ELSE st, EXT_SENS_DATA_00 + k - 1)

\* the g-th snapshot the continuous lane deposits: ST1 first, data ready set
Snapshot(g) == [k \in 1..MirrorLen |-> 16 * g + k]

\* the script's own state other than pc, the device and the bytes it read
SmtFrame ==
    /\ prog = "simple_mag_test"
    /\ UNCHANGED <<prog, calls, bank_writes, last_call, slv4_pc, i, polls,
                   first_done, arb_seen, read_after_arb, nack_seen, ret, reported>>
    /\ UNCHANGED seq_vars

\* one call of main() that reads nothing the script keeps
SmtCall(st, next) ==
    /\ Commit(st)
    /\ pc' = IF st.raised THEN "smt_error" ELSE next
    /\ UNCHANGED <<di_read, wia, wr_failed>>
    /\ UNCHANGED mirror_vars

\* lines 280-282
SmtCheckWhoami ==
    /\ SmtFrame
    /\ pc = "start"
    /\ \E f \in 0..2, found \in BOOLEAN :
        /\ FaultChoice(f)
        /\ LET st == check_whoami(Here(f)) IN
            /\ Consumed(f, st)
            /\ st.raised => found
            /\ SmtCall(st, IF found THEN "smt_init" ELSE "smt_notfound")
    /\ UNCHANGED i2c_mst_status
    /\ UNCHANGED cell_kept
    /\ UNCHANGED xfer_done
    /\ UNCHANGED identity
    /\ UNCHANGED n_verify

\* line 285
SmtInitBasic ==
    /\ SmtFrame
    /\ pc = "smt_init"
    /\ \E f \in 0..3 :
        /\ FaultChoice(f)
        /\ LET st == init_basic(Here(f)) IN
            /\ Consumed(f, st)
            /\ SmtCall(st, "smt_setup")
    /\ UNCHANGED i2c_mst_status
    /\ UNCHANGED cell_kept
    /\ UNCHANGED xfer_done
    /\ UNCHANGED identity
    /\ UNCHANGED n_verify

\* line 288
SmtSetup ==
    /\ SmtFrame
    /\ pc = "smt_setup"
    /\ \E f \in 0..9, lp_config \in {0, BIT_I2C_MST_CYCLE} :
        /\ FaultChoice(f)
        /\ LET st == setup_mag_i2c_master(Here(f), lp_config) IN
            /\ Consumed(f, st)
            /\ SmtCall(st, "smt_scan")
    /\ UNCHANGED i2c_mst_status
    /\ UNCHANGED cell_kept
    /\ UNCHANGED xfer_done
    /\ UNCHANGED identity
    /\ UNCHANGED n_verify

\* line 291: the bytes read are printed only; d is the last one read
SmtScan ==
    /\ SmtFrame
    /\ pc = "smt_scan"
    /\ \E f \in 0..29, d \in CellVals :
        /\ FaultChoice(f)
        /\ LET st == scan_i2c_addresses(Here(f)) IN
            /\ Consumed(f, st)
            /\ (st.raised /\ st.attempts <= 5) => d = 0
            /\ Commit(st)
            /\ pc' = IF st.raised THEN "smt_error" ELSE "smt_whoami"
            /\ di_read' = IF st.raised /\ st.attempts <= 5 THEN di_read ELSE d
    /\ UNCHANGED <<wia, wr_failed>>
    /\ UNCHANGED mirror_vars
    /\ UNCHANGED i2c_mst_status
    /\ UNCHANGED cell_kept
    /\ UNCHANGED xfer_done
    /\ UNCHANGED identity
    /\ UNCHANGED n_verify

\* lines 167-168: one of the two identity reads of test_mag_whoami
SmtWhoamiRead ==
    /\ SmtFrame
    /\ pc = "smt_whoami"
    /\ wia.w2 = NoData
    /\ \E f \in 0..5, d \in CellVals :
        /\ FaultChoice(f)
        /\ LET first == wia.w1 = NoData
               st == read_mag_reg_via_slv4(Here(f),
                                           IF first THEN AK09916_WIA1 ELSE AK09916_WIA2)
           IN  /\ Consumed(f, st)
               /\ st.raised => d = 0
               /\ Commit(st)
               /\ pc' = IF st.raised THEN "smt_error" ELSE "smt_whoami"
               /\ di_read' = IF st.raised THEN di_read ELSE d
               /\ wia' = IF st.raised THEN wia
                         ELSE IF first THEN [wia EXCEPT !.w1 = d]
                         ELSE [wia EXCEPT !.w2 = d]
    /\ UNCHANGED wr_failed
    /\ UNCHANGED mirror_vars
    /\ UNCHANGED i2c_mst_status
    /\ UNCHANGED cell_kept
    /\ UNCHANGED xfer_done
    /\ UNCHANGED identity
    /\ UNCHANGED n_verify

\* lines 173-181 and 294-297: the verdict on the two bytes
SmtWhoamiVerdict ==
    /\ SmtFrame
    /\ pc = "smt_whoami"
    /\ wia.w2 # NoData
    /\ pc' = IF whoami_verdict(wia.w1, wia.w2) = "success"
             THEN "smt_mode" ELSE "smt_failed"
    /\ identity' = IdentityCheck(whoami_verdict(wia.w1, wia.w2) = "success")
    /\ UNCHANGED <<dev_bank, dev, mag_srst, slept, faults, current_bank, lane_log, both_on,
                   di_read, wia, wr_failed>>
    /\ UNCHANGED mirror_vars
    /\ UNCHANGED i2c_mst_status
    /\ UNCHANGED acc_log
    /\ UNCHANGED cell_kept
    /\ UNCHANGED xfer_done
    /\ UNCHANGED n_verify

\* lines 223-224: continuous mode 3 is written through the one-shot lane
SmtWriteMode ==
    /\ SmtFrame
    /\ pc = "smt_mode"
    /\ \E f \in 0..5 :
        /\ FaultChoice(f)
        /\ LET st == sleep(write_mag_reg_via_slv4(Here(f), AK09916_CNTL2, 6), 100) IN
            /\ Consumed(f, st)
            /\ SmtCall(st, "smt_readback")
    /\ UNCHANGED i2c_mst_status
    /\ UNCHANGED cell_kept
    /\ UNCHANGED xfer_done
    /\ UNCHANGED identity
    /\ UNCHANGED n_verify

\* lines 227-228: the mode is read back and printed
SmtReadMode ==
    /\ SmtFrame
    /\ pc = "smt_readback"
    /\ \E f \in 0..5, d \in {0, 6} :
        /\ FaultChoice(f)
        /\ LET st == read_mag_reg_via_slv4(Here(f), AK09916_CNTL2) IN
            /\ Consumed(f, st)
            /\ st.raised => d = 0
            /\ Commit(st)
            /\ pc' = IF st.raised THEN "smt_error" ELSE "smt_slv0"
            /\ di_read' = IF st.raised THEN di_read ELSE d
    /\ UNCHANGED <<wia, wr_failed>>
    /\ UNCHANGED mirror_vars
    /\ UNCHANGED i2c_mst_status
    /\ UNCHANGED cell_kept
    /\ UNCHANGED xfer_done
    /\ UNCHANGED identity
    /\ UNCHANGED n_verify

\* lines 231-236
SmtSlv0Config ==
    /\ SmtFrame
    /\ pc = "smt_slv0"
    /\ \E f \in 0..4 :
        /\ FaultChoice(f)
        /\ LET st == sleep(slv0_config(Here(f)), 200) IN
            /\ Consumed(f, st)
            /\ SmtCall(st, "smt_loop")
    /\ UNCHANGED i2c_mst_status
    /\ UNCHANGED cell_kept
    /\ UNCHANGED xfer_done
    /\ UNCHANGED identity
    /\ UNCHANGED n_verify

\* lines 240-268: one register read of the loop; the eighth ends an iteration
SmtReadByte ==
    /\ SmtFrame
    /\ pc = "smt_loop"
    /\ \E f \in 0..2 :
        /\ FaultChoice(f)
        /\ LET k == IF Len(sample) = SmtReadLen THEN 1 ELSE Len(sample) + 1
               st == smt_read_byte(Here(f), k)
               v == MirrorRead(st.bank, EXT_SENS_DATA_00 + k - 1, ext)
               last == k = SmtReadLen /\ ~st.raised
           IN  /\ Consumed(f, st)
               /\ Commit(st)
               /\ sample' = IF st.raised THEN sample
                            ELSE IF k = 1 THEN <<v>> ELSE Append(sample, v)
               /\ sample_gen' = IF st.raised THEN sample_gen
                                ELSE IF k = 1 THEN <<refreshes>>
                                ELSE Append(sample_gen, refreshes)
               /\ n_sample' = IF last THEN n_sample + 1 ELSE n_sample
               /\ pc' = IF st.raised THEN "smt_error"
                        ELSE IF last /\ n_sample + 1 = SmtSamples THEN "smt_done"
                        ELSE "smt_loop"
    /\ UNCHANGED <<di_read, wia, wr_failed, ext, refreshes, valid_count>>
    /\ UNCHANGED i2c_mst_status
    /\ UNCHANGED cell_kept
    /\ UNCHANGED xfer_done
    /\ UNCHANGED identity
    /\ UNCHANGED n_verify

\* the continuous lane is running: Slave 0 enabled and the master enabled
MirrorOn ==
    /\ BitSet(dev[<<3, I2C_SLV0_CTRL>>], BIT_SLAVE_EN)
    /\ BitSet(dev[<<0, USER_CTRL>>], BIT_I2C_MST_EN)

\* the hardware deposits a fresh snapshot of as many bytes as Slave 0 was
\* told to read, at any moment between two host accesses
HwRefresh ==
    /\ pc \in {"smt_loop", "as_loop"}
    /\ MirrorOn
    /\ refreshes < MaxRefresh
    /\ refreshes' = refreshes + 1
    /\ ext' = [k \in 1..MirrorLen |->
                  IF k <= dev[<<3, I2C_SLV0_CTRL>>] % 16
                  THEN Snapshot(refreshes + 1)[k] ELSE ext[k]]
    /\ UNCHANGED <<prog, pc, dev_bank, dev, mag_srst, slept, faults, current_bank,
                   calls, bank_writes, last_call, lane_log, both_on, sample, sample_gen,
                   n_sample, valid_count>>
    /\ UNCHANGED slv4_vars
    /\ UNCHANGED seq_vars
    /\ UNCHANGED host_vars
    /\ UNCHANGED i2c_mst_status
    /\ UNCHANGED acc_log
    /\ UNCHANGED cell_kept
    /\ UNCHANGED xfer_done
    /\ UNCHANGED identity
    /\ UNCHANGED n_verify

\* ------------------------------------------------------------------------
\* test-all-sensors-i2c-master.py
\* ------------------------------------------------------------------------
\* bus.read_i2c_block_data(ICM20948_ADDR, reg, length): one transport call
read_i2c_block(st, reg, length) == read_byte_data(st, reg)

\* lines 120-163: STEP 1 to STEP 6
as_init(st) ==
    LET s1 == sleep(write_reg(sleep(write_reg(set_bank(st, 0), PWR_MGMT_1, 128), 100),
                              PWR_MGMT_1, 1), 10)
        s2 == read_reg(sleep(write_reg(s1, PWR_MGMT_2, 0), 50), PWR_MGMT_2)
        s3 == set_bank(write_reg(write_reg(set_bank(s2, 2), GYRO_CONFIG_1, 6),
                                 ACCEL_CONFIG, 4), 0)
        s4 == sleep(write_reg(s3, INT_PIN_CFG, 0), 10)
        s5 == set_bank(write_reg(write_reg(set_bank(s4, 3), I2C_MST_ODR_CONFIG, 4),
                                 I2C_MST_CTRL, 23), 0)
    IN  read_reg(sleep(write_reg(read_reg(s5, USER_CTRL), USER_CTRL, BIT_I2C_MST_EN),
                       100), USER_CTRL)

\* lines 91-102: the lane is programmed and enabled, enabled again with the
\* value in the control byte, then programmed a second time with the value
\* in I2C_SLV4_DO and enabled a third time
test_slv4_write_config(st, addr, reg, value) ==
    LET a == write_reg(write_reg(write_reg(write_reg(set_bank(st, 3),
                                                     I2C_SLV4_ADDR, addr),
                                           I2C_SLV4_REG, reg),
                                 I2C_SLV4_CTRL, BIT_SLAVE_EN),
                       I2C_SLV4_CTRL, BIT_SLAVE_EN + value)
    IN  write_reg(write_byte_data(write_reg(write_reg(set_bank(a, 3),
                                                      I2C_SLV4_ADDR, addr),
                                            I2C_SLV4_REG, reg),
                                  I2C_SLV4_DO, value),
                  I2C_SLV4_CTRL, BIT_SLAVE_EN)

\* lines 105-111: iteration k of the poll of test_slv4_write
test_slv4_write_iter(k, status) ==
    IF BitSet(status, BIT_SLV4_DONE) THEN [pc |-> "ret", result |-> TRUE]
    ELSE IF k + 1 < PollCeiling THEN [pc |-> "poll", result |-> FALSE]
    ELSE [pc |-> "ret", result |-> FALSE]

\* lines 187-193: the two writes of STEP 8, in order
as_writes == <<[reg |-> AK09916_CNTL3, value |-> 1],
               [reg |-> AK09916_CNTL2, value |-> 6]>>

\* lines 204-209: STEP 9
as_slv0_config(st) == sleep(set_bank(slv0_config(st), 0), 100)

\* lines 225-250: the transport calls of one sample
as_sample_reads(st) ==
    read_i2c_block(read_i2c_block(read_i2c_block(set_bank(sleep(st, 100), 0),
                                                 ACCEL_XOUT_H, 6), GYRO_XOUT_H, 6),
                   EXT_SENS_DATA_00, MirrorLen)

\* the script's own state other than pc, the device and what it read
AsFrame ==
    /\ prog = "all_sensors"
    /\ UNCHANGED <<prog, calls, bank_writes, last_call>>
    /\ UNCHANGED seq_vars
    /\ UNCHANGED wia

\* lines 120-170
AsInit ==
    /\ AsFrame
    /\ pc = "start"
    /\ \E f \in 0..17 :
        /\ FaultChoice(f)
        /\ LET st == as_init(Here(f)) IN
            /\ Consumed(f, st)
            /\ Commit(st)
            /\ pc' = IF st.raised THEN "as_crashed"
                     ELSE IF BitSet(st.regs[<<st.bank, USER_CTRL>>], BIT_I2C_MST_EN)
                     THEN "as_whoami"
                     ELSE "as_exit"
    /\ UNCHANGED wr_failed
    /\ UNCHANGED slv4_vars
    /\ UNCHANGED mirror_vars
    /\ UNCHANGED i2c_mst_status
    /\ UNCHANGED cell_kept
    /\ UNCHANGED xfer_done
    /\ UNCHANGED identity
    /\ UNCHANGED n_verify

\* lines 174 and 196: test_slv4_read is called
AsReadCall ==
    /\ AsFrame
    /\ pc \in {"as_whoami", "as_verify"}
    /\ Slv4Config(AK09916_ADDR, IF pc = "as_whoami" THEN AK09916_WIA1 ELSE AK09916_CNTL2)
    /\ pc' = IF slv4_pc' = "raised" THEN "as_crashed"
             ELSE IF pc = "as_whoami" THEN "as_whoami_wait" ELSE "as_verify_wait"
    /\ UNCHANGED wr_failed
    /\ UNCHANGED mirror_vars
    /\ UNCHANGED i2c_mst_status
    /\ UNCHANGED identity
    /\ UNCHANGED n_verify

\* lines 174 and 196: test_slv4_read polls
AsReadPoll ==
    /\ AsFrame
    /\ pc \in {"as_whoami_wait", "as_verify_wait"}
    /\ Slv4Poll
    /\ pc' = IF slv4_pc' = "raised" THEN "as_crashed" ELSE pc
    /\ UNCHANGED wr_failed
    /\ UNCHANGED mirror_vars
    /\ UNCHANGED i2c_mst_status
    /\ UNCHANGED xfer_done
    /\ UNCHANGED identity
    /\ UNCHANGED n_verify

\* lines 175-180 and 197-200: the identity check ends the script unless it
\* passes; the readback of the mode is printed only
AsReadVerdict ==
    /\ AsFrame
    /\ pc \in {"as_whoami_wait", "as_verify_wait"}
    /\ slv4_pc = "ret"
    /\ pc' = IF pc = "as_verify_wait" THEN "as_slv0"
             ELSE IF ret.success /\ ret.data = WIA1_VALUE THEN "as_write1"
             ELSE "as_exit"
    /\ identity' = IF pc = "as_verify_wait" THEN identity
                   ELSE IdentityCheck(ret.success /\ ret.data = WIA1_VALUE)
    /\ slv4_pc' = "idle"
    /\ StartPoll
    /\ UNCHANGED <<dev_bank, dev, mag_srst, slept, faults, current_bank, lane_log,
                   both_on, wr_failed>>
    /\ UNCHANGED mirror_vars
    /\ UNCHANGED i2c_mst_status
    /\ UNCHANGED acc_log
    /\ UNCHANGED n_verify

\* which write of STEP 8 the script is at, 0 = none
AsWriteIndex ==
    CASE pc \in {"as_write1", "as_write1_wait"} -> 1
      [] pc \in {"as_write2", "as_write2_wait"} -> 2
      [] OTHER -> 0

\* lines 187 and 192: test_slv4_write is called, lines 91-102 of it
AsWriteCall ==
    /\ AsFrame
    /\ pc \in {"as_write1", "as_write2"}
    /\ \E f \in 0..10 :
        /\ FaultChoice(f)
        /\ LET w == as_writes[AsWriteIndex]
               st == test_slv4_write_config(Here(f), AK09916_ADDR, w.reg, w.value)
           IN  /\ Consumed(f, st)
               /\ Commit(st)
               /\ pc' = IF st.raised THEN "as_crashed"
                        ELSE IF pc = "as_write1" THEN "as_write1_wait"
                        ELSE "as_write2_wait"
    /\ StartPoll
    /\ UNCHANGED <<slv4_pc, wr_failed>>
    /\ UNCHANGED mirror_vars
    /\ UNCHANGED i2c_mst_status
    /\ UNCHANGED identity
    /\ UNCHANGED n_verify

\* lines 105-111, one iteration, and lines 188 / 193 once the call returned:
\* the result is dropped and the script goes on after 100 ms
AsWritePoll ==
    /\ AsFrame
    /\ pc \in {"as_write1_wait", "as_write2_wait"}
    /\ \/ \E s \in CellVals :
            LET r == test_slv4_write_iter(i, s) IN
            /\ ObserveStatus(s)
            /\ i' = IF r.pc = "poll" THEN i + 1 ELSE i
            /\ pc' = IF r.pc = "poll" THEN pc
                     ELSE IF pc = "as_write1_wait" THEN "as_write2"
                     ELSE "as_verify"
            /\ wr_failed' = IF r.pc = "ret" /\ ~r.result
                            THEN wr_failed \cup {as_writes[AsWriteIndex].reg}
                            ELSE wr_failed
            /\ slept' = Min(slept + PollIntervalMs
                                  + (IF r.pc = "ret" THEN 100 ELSE 0), SettleMs)
            /\ faults' = faults
            /\ acc_log' = <<PollRead(I2C_MST_STATUS)>>
            \* the hardware has completed the transfers of the first n triggers
            \* of the call by now; SLV4_DONE shows only once one has completed
            /\ \E n \in xfer_done..Len(lane_log) :
                    /\ BitSet(s, BIT_SLV4_DONE) => n >= 1
                    /\ xfer_done' = n
       \/ /\ faults < MaxFaults           \* the read of I2C_MST_STATUS raises
          /\ polls' = polls + 1
          /\ pc' = "as_crashed"
          /\ faults' = faults + 1
          /\ slept' = Min(slept + PollIntervalMs, SettleMs)
          /\ acc_log' = <<>>
          /\ UNCHANGED <<first_done, arb_seen, read_after_arb, nack_seen, i,
                         wr_failed, xfer_done>>
    /\ UNCHANGED <<dev_bank, dev, mag_srst, current_bank, lane_log, both_on,
                   slv4_pc, di_read, ret, reported>>
    /\ UNCHANGED mirror_vars
    /\ UNCHANGED i2c_mst_status
    /\ UNCHANGED cell_kept
    /\ UNCHANGED identity
    /\ UNCHANGED n_verify

\* lines 204-209
AsSlv0Config ==
    /\ AsFrame
    /\ pc = "as_slv0"
    /\ \E f \in 0..5 :
        /\ FaultChoice(f)
        /\ LET st == as_slv0_config(Here(f)) IN
            /\ Consumed(f, st)
            /\ Commit(st)
            /\ pc' = IF st.raised THEN "as_crashed" ELSE "as_loop"
    /\ UNCHANGED wr_failed
    /\ UNCHANGED slv4_vars
    /\ UNCHANGED mirror_vars
    /\ UNCHANGED i2c_mst_status
    /\ UNCHANGED cell_kept
    /\ UNCHANGED xfer_done
    /\ UNCHANGED identity
    /\ UNCHANGED n_verify

\* faulty variant of as_st1: data ready is looked for in the second byte
as_st1_second_byte(mag_data) == mag_data[2]

\* line 251: st1 = mag_data[0]
as_st1(mag_data) == mag_data[1]

\* line 257: st2 = mag_data[7], the eighth of the nine bytes
as_st2(mag_data) == mag_data[8]

\* lines 224-274: one sample.  The nine bytes of the block read leave the
\* device one after the other: a refresh may land after the j-th of them
AsSample ==
    /\ AsFrame
    /\ pc = "as_loop"
    /\ \E f \in 0..4, j \in 1..MirrorLen :
        /\ FaultChoice(f)
        /\ (j < MirrorLen) => (MirrorOn /\ refreshes < MaxRefresh)
        /\ LET st == as_sample_reads(Here(f))
               torn == j < MirrorLen /\ ~st.raised
               after == [k \in 1..MirrorLen |->
                            IF k <= dev[<<3, I2C_SLV0_CTRL>>] % 16
                            THEN Snapshot(refreshes + 1)[k] ELSE ext[k]]
               mag_data == [k \in 1..MirrorLen |->
                               MirrorRead(st.bank, EXT_SENS_DATA_00 + k - 1,
                                          IF k <= j THEN ext ELSE after)]
           IN  /\ Consumed(f, st)
               /\ st.raised => j = MirrorLen
               /\ Commit(st)
               /\ ext' = IF torn THEN after ELSE ext
               /\ refreshes' = IF torn THEN refreshes + 1 ELSE refreshes
               /\ sample' = IF st.raised THEN sample ELSE mag_data
               /\ sample_gen' = IF st.raised THEN sample_gen
                                ELSE [k \in 1..MirrorLen |->
                                         IF k <= j THEN refreshes ELSE refreshes + 1]
               /\ valid_count' = IF ~st.raised /\ BitSet(as_st1(mag_data), BIT_DRDY)
                                 THEN valid_count + 1 ELSE valid_count
               /\ n_sample' = IF st.raised THEN n_sample ELSE n_sample + 1
               /\ pc' = IF st.raised THEN "as_crashed"
                        ELSE IF n_sample + 1 = AsSamples THEN "as_done"
                        ELSE "as_loop"
    /\ UNCHANGED wr_failed
    /\ UNCHANGED slv4_vars
    /\ UNCHANGED i2c_mst_status
    /\ UNCHANGED cell_kept
    /\ UNCHANGED xfer_done
    /\ UNCHANGED identity
    /\ UNCHANGED n_verify

\* ------------------------------------------------------------------------
\* try-all-sequences.py: the recipes and the loop over them
\* ------------------------------------------------------------------------
P_reset_device == [op |-> "reset_device", a |-> 0, b |-> 0]

P_set_bank(n) == [op |-> "set_bank", a |-> n, b |-> 0]

P_write_reg(reg, value) == [op |-> "write_reg", a |-> reg, b |-> value]

P_sleep(ms) == [op |-> "sleep", a |-> ms, b |-> 0]

P_mag_write(reg, value) == [op |-> "mag_write", a |-> reg, b |-> value]

\* steps shared by the recipes
S_reset == <<P_reset_device>>

S_odr == <<P_set_bank(3), P_write_reg(I2C_MST_ODR_CONFIG, 4)>>

S_enable(value) == <<P_set_bank(0), P_write_reg(USER_CTRL, value)>>

\* lines 74-142: each recipe is its list of steps, each step the calls of its
\* lambda in evaluation order
sequences == <<
    << S_reset,
       <<P_set_bank(0), P_write_reg(INT_PIN_CFG, 0)>>,
       <<P_write_reg(USER_CTRL, 6)>>,
       <<P_sleep(100)>>,
       <<P_write_reg(LP_CONFIG, 0)>>,
       S_odr,
       <<P_write_reg(I2C_MST_CTRL, 23)>>,
       S_enable(32),
       <<P_sleep(100)>> >>,
    << S_reset,
       <<P_write_reg(PWR_MGMT_2, 0)>>,
       <<P_sleep(50)>>,
       <<P_write_reg(INT_PIN_CFG, 0)>>,
       S_odr,
       <<P_write_reg(I2C_MST_CTRL, 23)>>,
       S_enable(32),
       <<P_sleep(100)>> >>,
    << S_reset,
       <<P_write_reg(PWR_MGMT_2, 0)>>,
       <<P_write_reg(USER_CTRL, 54)>>,
       <<P_sleep(100)>>,
       S_odr,
       <<P_write_reg(I2C_MST_CTRL, 23)>>,
       S_enable(48),
       <<P_sleep(100)>> >>,
    << S_reset,
       <<P_write_reg(INT_PIN_CFG, 2)>>,
       <<P_sleep(50)>>,
       <<P_mag_write(AK09916_CNTL3, 1)>>,
       <<P_sleep(100)>>,
       <<P_write_reg(INT_PIN_CFG, 0)>>,
       <<P_sleep(50)>>,
       S_odr,
       <<P_write_reg(I2C_MST_CTRL, 23)>>,
       S_enable(32),
       <<P_sleep(100)>> >>,
    << S_reset,
       <<P_write_reg(INT_PIN_CFG, 0)>>,
       S_odr,
       <<P_write_reg(I2C_MST_CTRL, 7)>>,
       S_enable(32),
       <<P_sleep(100)>> >>
  >>

NSeq == Len(sequences)

NSteps(r) == Len(sequences[r])

\* one call made by a step's lambda
ExecPrim(st, p) ==
    CASE p.op = "reset_device" -> reset_device(st)
      [] p.op = "set_bank" -> set_bank(st, p.a)
      [] p.op = "write_reg" -> write_reg(st, p.a, p.b)
      [] p.op = "sleep" -> sleep(st, p.a)
      [] p.op = "mag_write" -> mag_write_byte_data(st, p.a, p.b)

\* step_func(): the calls of the lambda in order, cut short by an exception
RECURSIVE ExecFrom(_, _, _)
ExecFrom(st, prims, k) ==
    IF k > Len(prims) THEN st ELSE ExecFrom(ExecPrim(st, prims[k]), prims, k + 1)

step_func(st, prims) == ExecFrom(st, prims, 1)

\* faulty variant of after_step: an exception does not end the recipe's steps
after_step_no_break(k, n, raised) ==
    IF k < n THEN [pc |-> "steps", step |-> k + 1]
    ELSE [pc |-> "verify", step |-> k + 1]

\* lines 150-156: after step k of n; an exception breaks out of the step loop
after_step(k, n, raised) ==
    IF raised THEN [pc |-> "verify", step |-> k]
    ELSE IF k < n THEN [pc |-> "steps", step |-> k + 1]
    ELSE [pc |-> "verify", step |-> k + 1]

\* faulty variant of Outcome: a completed read passes whatever byte it returned
Outcome_any_data(r) ==
    IF r.success THEN "Success"
    ELSE "Timeout"

\* lines 162-171: how the result of test_slv4_read is reported
Outcome(r) ==
    IF r.success /\ r.data = WIA1_VALUE THEN "Success"
    ELSE IF r.success THEN "Mismatch"
    ELSE "Timeout"

\* faulty variant of after_verify: a passing recipe does not end the loop
after_verify_no_break(r, outcome) ==
    IF r < NSeq THEN [pc |-> "steps", seq |-> r + 1]
    ELSE [pc |-> "none", seq |-> r]

\* lines 144, 162-175: after the verification of recipe r; success breaks out
\* of the recipe loop, exhausting the list runs the for-else
after_verify(r, outcome) ==
    IF outcome = "Success" THEN [pc |-> "found", seq |-> r]
    ELSE IF r < NSeq THEN [pc |-> "steps", seq |-> r + 1]
    ELSE [pc |-> "none", seq |-> r]

VerdictOf(outcome) ==
    CASE outcome = "Success" -> "pass"
      [] outcome = "Mismatch" -> "mismatch"
      [] OTHER -> "timeout"

\* the state of the auxiliary bus master the device is in: enabled by the
\* I2C_MST_EN bit of USER_CTRL (line 85), trustworthy SettleMs later (line 86)
AuxState ==
    IF ~BitSet(dev[<<0, USER_CTRL>>], BIT_I2C_MST_EN) THEN "Disabled"
    ELSE IF slept < SettleMs THEN "Enabling"
    ELSE "Ready"

\* lines 150-156: one step of the current recipe
SeqStep ==
    /\ prog = "try_all_sequences"
    /\ pc \in {"start", "steps"}
    /\ \E f \in 0..3 :
        /\ FaultChoice(f)
        /\ LET st == step_func(Here(f), sequences[seq][step])
               nx == after_step(step, NSteps(seq), st.raised)
           IN  /\ Consumed(f, st)
               /\ Commit(st)
               /\ pc' = nx.pc
               /\ step' = nx.step
               /\ step_raised' = IF st.raised /\ step_raised = 0 THEN step
                                 ELSE step_raised
    /\ ran' = Append(ran, step)
    /\ started' = started \cup {seq}
    /\ UNCHANGED <<prog, seq, verdict, calls, bank_writes, last_call>>
    /\ UNCHANGED slv4_vars
    /\ UNCHANGED mirror_vars
    /\ UNCHANGED host_vars
    /\ UNCHANGED i2c_mst_status
    /\ UNCHANGED cell_kept
    /\ UNCHANGED xfer_done
    /\ UNCHANGED identity
    /\ UNCHANGED n_verify

\* line 160: test_slv4_read() is called, outside any try
SeqVerifyCall ==
    /\ prog = "try_all_sequences"
    /\ pc = "verify"
    /\ Slv4Config(AK09916_ADDR, 0)
    /\ pc' = IF slv4_pc' = "raised" THEN "crashed" ELSE "wait"
    /\ n_verify' = n_verify + 1
    /\ UNCHANGED <<prog, calls, bank_writes, last_call>>
    /\ UNCHANGED seq_vars
    /\ UNCHANGED mirror_vars
    /\ UNCHANGED host_vars
    /\ UNCHANGED i2c_mst_status
    /\ UNCHANGED identity

\* line 160: test_slv4_read() polls
SeqPoll ==
    /\ prog = "try_all_sequences"
    /\ pc = "wait"
    /\ Slv4Poll
    /\ pc' = IF slv4_pc' = "raised" THEN "crashed" ELSE "wait"
    /\ UNCHANGED <<prog, calls, bank_writes, last_call>>
    /\ UNCHANGED seq_vars
    /\ UNCHANGED mirror_vars
    /\ UNCHANGED host_vars
    /\ UNCHANGED i2c_mst_status
    /\ UNCHANGED xfer_done
    /\ UNCHANGED identity
    /\ UNCHANGED n_verify

\* lines 160-175: test_slv4_read() has returned; report, then break or go on
SeqVerdict ==
    /\ prog = "try_all_sequences"
    /\ pc = "wait"
    /\ slv4_pc = "ret"
    /\ LET nx == after_verify(seq, Outcome(ret)) IN
        /\ pc' = nx.pc
        /\ seq' = nx.seq
        /\ step' = IF nx.pc = "steps" THEN 1 ELSE step
        /\ ran' = IF nx.pc = "steps" THEN <<>> ELSE ran
        /\ step_raised' = IF nx.pc = "steps" THEN 0 ELSE step_raised
    /\ verdict' = [verdict EXCEPT ![seq] = VerdictOf(Outcome(ret))]
    /\ slv4_pc' = "idle"
    /\ StartPoll        \* success, data, ms and the poll's locals are dead now
    /\ UNCHANGED <<prog, dev_bank, dev, mag_srst, slept, faults, current_bank,
                   calls, bank_writes, last_call, started, lane_log, both_on>>
    /\ UNCHANGED mirror_vars
    /\ UNCHANGED host_vars
    /\ UNCHANGED i2c_mst_status
    /\ UNCHANGED acc_log
    /\ UNCHANGED identity
    /\ UNCHANGED n_verify

\* ------------------------------------------------------------------------
\* test-all-sensors-debug.py: the whole script, with the caching set_bank
\* ------------------------------------------------------------------------
\* lines 107-119
dump_bank0_regs(st) ==
    read_reg(read_reg(read_reg(read_reg(read_reg(set_bank_cached(st, 0),
        WHO_AM_I), PWR_MGMT_1), PWR_MGMT_2), USER_CTRL), INT_PIN_CFG)

\* lines 121-128
dump_bank2_regs(st) ==
    read_reg(read_reg(set_bank_cached(st, 2), GYRO_CONFIG_1), ACCEL_CONFIG)

\* the nine reads of lines 135-143
dump3_reads(st) ==
    read_reg(read_reg(read_reg(read_reg(read_reg(read_reg(read_reg(read_reg(read_reg(st,
        I2C_MST_ODR_CONFIG), I2C_MST_CTRL), I2C_MST_STATUS), I2C_SLV0_ADDR),
        I2C_SLV0_REG), I2C_SLV0_CTRL), I2C_SLV4_ADDR), I2C_SLV4_REG), I2C_SLV4_CTRL)

\* faulty variant of dump_bank3_regs: the bank is selected behind the cache
dump_bank3_regs_uncached(st) == dump3_reads(set_bank(st, 3))

\* lines 130-153
dump_bank3_regs(st) == dump3_reads(set_bank_cached(st, 3))

\* STEP 1 to STEP 6, lines 164-226
dbg_step(st, k) ==
    CASE k = 1 -> dump_bank0_regs(debug_reset(st))
      [] k = 2 -> dump_bank0_regs(
                      sleep(write_and_verify(set_bank_cached(st, 0), PWR_MGMT_2, 0), 50))
      [] k = 3 -> dump_bank2_regs(
                      write_and_verify(
                          write_and_verify(set_bank_cached(st, 2), GYRO_CONFIG_1, 6),
                          ACCEL_CONFIG, 4))
      [] k = 4 -> dump_bank0_regs(
                      sleep(write_and_verify(set_bank_cached(st, 0), INT_PIN_CFG, 0), 10))
      [] k = 5 -> dump_bank3_regs(
                      write_and_verify(
                          write_and_verify(set_bank_cached(st, 3), I2C_MST_ODR_CONFIG, 4),
                          I2C_MST_CTRL, 7 + BIT_I2C_MST_P_NSR))
      [] k = 6 -> dump_bank3_regs(dump_bank0_regs(
                      sleep(write_and_verify(set_bank_cached(st, 0),
                                             USER_CTRL, BIT_I2C_MST_EN), 100)))

DbgInitSteps == 6

\* a poll loop that made n reads of I2C_MST_STATUS, sleeping pre ms before
\* and post ms after each; the read that shows SLV4_DONE breaks the loop
RECURSIVE poll_reads(_, _, _, _, _)
poll_reads(st, n, pre, post, done) ==
    IF n = 0 THEN st
    ELSE LET r == read_reg(sleep(st, pre), I2C_MST_STATUS)
         IN  IF n = 1 /\ done THEN r
             ELSE poll_reads(sleep(r, post), n - 1, pre, post, done)

\* STEP 7, lines 232-246: the lane is programmed and read back
dbg_slv4_whoami(st) ==
    LET c == write_reg(write_reg(write_reg(set_bank_cached(st, 3),
                                           I2C_SLV4_ADDR, BIT_I2C_READ + AK09916_ADDR),
                                 I2C_SLV4_REG, AK09916_WIA1),
                       I2C_SLV4_CTRL, BIT_SLAVE_EN)
    IN  read_reg(read_reg(read_reg(c, I2C_SLV4_ADDR), I2C_SLV4_REG), I2C_SLV4_CTRL)

\* STEP 8, lines 280-307: one write through the lane with its ten-read poll;
\* the first one selects bank 3
dbg_lane_write(st, reg, value, n, done) ==
    LET c == write_reg(write_reg(write_reg(write_reg(
                 IF reg = AK09916_CNTL3 THEN set_bank_cached(st, 3) ELSE st,
                 I2C_SLV4_ADDR, AK09916_ADDR), I2C_SLV4_REG, reg),
                 I2C_SLV4_DO, value), I2C_SLV4_CTRL, BIT_SLAVE_EN)
    IN  sleep(poll_reads(sleep(c, 10), n, 0, PollIntervalMs, done), 100)

\* STEP 8, lines 310-323: the mode is read back through the lane
dbg_lane_verify(st, n, done) ==
    LET c == write_reg(write_reg(write_reg(st,
                 I2C_SLV4_ADDR, BIT_I2C_READ + AK09916_ADDR),
                 I2C_SLV4_REG, AK09916_CNTL2), I2C_SLV4_CTRL, BIT_SLAVE_EN)
        p == poll_reads(sleep(c, 50), n, 0, PollIntervalMs, done)
    IN  IF done THEN read_reg(p, I2C_SLV4_DI) ELSE p

\* STEP 9 and STEP 10, lines 329-348
dbg_slv0(st) ==
    LET c == write_and_verify(write_and_verify(write_and_verify(
                 set_bank_cached(st, 3),
                 I2C_SLV0_ADDR, BIT_I2C_READ + AK09916_ADDR),
                 I2C_SLV0_REG, AK09916_ST1), I2C_SLV0_CTRL, BIT_SLAVE_EN + 9)
    IN  dump_bank3_regs(dump_bank2_regs(dump_bank0_regs(
            dump_bank3_regs(sleep(c, 100)))))

\* STEP 11, lines 357-370: the three block reads of one sample
dbg_sample(st) ==
    read_i2c_block(read_i2c_block(read_i2c_block(sleep(st, 100),
        ACCEL_XOUT_H, 6), GYRO_XOUT_H, 6), EXT_SENS_DATA_00, 9)

DbgSamples == 5

\* the ceiling of the polls of STEP 8
DbgPollCeiling == 10

\* the script's own state other than pc, its step counters and the device
DbgFrame ==
    /\ prog = "all_sensors_debug"
    /\ UNCHANGED <<prog, calls, bank_writes, last_call, seq, ran, step_raised,
                   started, verdict>>
    /\ UNCHANGED host_vars
    /\ UNCHANGED i2c_mst_status
    /\ UNCHANGED <<ext, refreshes, sample, sample_gen, valid_count>>

\* no handler: an exception of the transport ends the script
DbgCall(st, next) ==
    /\ Commit(st)
    /\ pc' = IF st.raised THEN "dbg_crashed" ELSE next

\* lines 164-226: STEP 1 to STEP 6, one after the other
DbgInitStep ==
    /\ DbgFrame
    /\ pc = "start"
    /\ \E f \in 0..24 :
        /\ FaultChoice(f)
        /\ LET st == dbg_step(Here(f), step) IN
            /\ Consumed(f, st)
            /\ DbgCall(st, IF step = DbgInitSteps THEN "dbg_slv4" ELSE "start")
            /\ step' = IF st.raised \/ step = DbgInitSteps THEN step ELSE step + 1
    /\ UNCHANGED n_sample
    /\ UNCHANGED slv4_vars
    /\ UNCHANGED cell_kept
    /\ UNCHANGED xfer_done
    /\ UNCHANGED identity
    /\ UNCHANGED n_verify

\* lines 232-246: STEP 7, the lane is programmed and read back
DbgSlv4Call ==
    /\ DbgFrame
    /\ pc = "dbg_slv4"
    /\ slv4_pc = "idle"
    /\ \E f \in 0..7 :
        /\ FaultChoice(f)
        /\ LET st == dbg_slv4_whoami(Here(f)) IN
            /\ Consumed(f, st)
            /\ DbgCall(st, "dbg_slv4_wait")
            /\ slv4_pc' = IF st.raised THEN "raised" ELSE "poll"
    /\ StartPoll
    /\ UNCHANGED <<step, n_sample>>
    /\ UNCHANGED identity
    /\ UNCHANGED n_verify

\* lines 253-265: the poll of STEP 7, the loop of test_slv4_read
DbgSlv4Poll ==
    /\ DbgFrame
    /\ pc = "dbg_slv4_wait"
    /\ Slv4Poll
    /\ pc' = IF slv4_pc' = "raised" THEN "dbg_crashed" ELSE pc
    /\ UNCHANGED <<step, n_sample>>
    /\ UNCHANGED xfer_done
    /\ UNCHANGED identity
    /\ UNCHANGED n_verify

\* lines 267-272: anything but a completed read of 0x48 dumps bank 3 and exits
DbgSlv4Verdict ==
    /\ DbgFrame
    /\ pc = "dbg_slv4_wait"
    /\ slv4_pc = "ret"
    /\ \E f \in 0..10 :
        /\ FaultChoice(f)
        /\ LET ok == ret.success /\ ret.data = WIA1_VALUE
               st == IF ok THEN Here(f) ELSE dump_bank3_regs(Here(f))
           IN  /\ Consumed(f, st)
               /\ DbgCall(st, IF ok THEN "dbg_mag1" ELSE "dbg_exit")
               /\ identity' = IdentityCheck(ok)
    /\ slv4_pc' = "idle"
    /\ StartPoll
    /\ UNCHANGED <<step, n_sample>>
    /\ UNCHANGED n_verify

\* lines 280-307: the soft reset, then the mode, written through the lane
DbgMagWrite ==
    /\ DbgFrame
    /\ pc \in {"dbg_mag1", "dbg_mag2"}
    /\ \E f \in 0..15, n \in 1..DbgPollCeiling, done \in BOOLEAN :
        /\ FaultChoice(f)
        /\ ~done => n = DbgPollCeiling
        /\ LET st == IF pc = "dbg_mag1"
                     THEN dbg_lane_write(Here(f), AK09916_CNTL3, 1, n, done)
                     ELSE dbg_lane_write(Here(f), AK09916_CNTL2, 6, n, done)
           IN  /\ Consumed(f, st)
               /\ DbgCall(st, IF pc = "dbg_mag1" THEN "dbg_mag2" ELSE "dbg_verify")
    /\ UNCHANGED <<step, n_sample>>
    /\ UNCHANGED slv4_vars
    /\ UNCHANGED cell_kept
    /\ UNCHANGED xfer_done
    /\ UNCHANGED identity
    /\ UNCHANGED n_verify

\* lines 310-323
DbgMagVerify ==
    /\ DbgFrame
    /\ pc = "dbg_verify"
    /\ \E f \in 0..14, n \in 1..DbgPollCeiling, done \in BOOLEAN :
        /\ FaultChoice(f)
        /\ ~done => n = DbgPollCeiling
        /\ LET st == dbg_lane_verify(Here(f), n, done) IN
            /\ Consumed(f, st)
            /\ DbgCall(st, "dbg_slv0")
    /\ UNCHANGED <<step, n_sample>>
    /\ UNCHANGED slv4_vars
    /\ UNCHANGED cell_kept
    /\ UNCHANGED xfer_done
    /\ UNCHANGED identity
    /\ UNCHANGED n_verify

\* lines 329-348: STEP 9 and STEP 10
DbgSlv0 ==
    /\ DbgFrame
    /\ pc = "dbg_slv0"
    /\ \E f \in 0..36 :
        /\ FaultChoice(f)
        /\ LET st == dbg_slv0(Here(f)) IN
            /\ Consumed(f, st)
            /\ DbgCall(st, "dbg_read")
    /\ UNCHANGED <<step, n_sample>>
    /\ UNCHANGED slv4_vars
    /\ UNCHANGED cell_kept
    /\ UNCHANGED xfer_done
    /\ UNCHANGED identity
    /\ UNCHANGED n_verify

\* lines 352-370: STEP 11, one sample; set_bank(0) precedes the first
DbgSample ==
    /\ DbgFrame
    /\ pc = "dbg_read"
    /\ \E f \in 0..4 :
        /\ FaultChoice(f)
        /\ LET st == dbg_sample(IF n_sample = 0 THEN set_bank_cached(Here(f), 0)
                                ELSE Here(f))
           IN  /\ Consumed(f, st)
               /\ DbgCall(st, IF n_sample + 1 = DbgSamples THEN "dbg_done" ELSE "dbg_read")
               /\ n_sample' = IF st.raised THEN n_sample ELSE n_sample + 1
    /\ UNCHANGED step
    /\ UNCHANGED slv4_vars
    /\ UNCHANGED cell_kept
    /\ UNCHANGED xfer_done
    /\ UNCHANGED identity
    /\ UNCHANGED n_verify

\* ------------------------------------------------------------------------
\* test-mag-bypass.py: the magnetometer read directly over passthrough
\* ------------------------------------------------------------------------
\* loop ceiling of line 105
MbSamples == 20

\* bytes a direct read of WIA1 / WIA2 returns: nothing, 0x09, 0x48
MagVals == {0, WIA2_VALUE, WIA1_VALUE}

\* bus.read_byte_data(AK09916_ADDR, reg) and bus.read_i2c_block_data(
\* AK09916_ADDR, reg, n): one transport call, answered by the magnetometer
\* only while the bypass bit of INT_PIN_CFG is set
mag_read_byte_data(st, reg) ==
    IF st.raised THEN st
    ELSE LET a == [st EXCEPT !.attempts = @ + 1] IN
         IF st.fail_at = 1 \/ ~BitSet(st.regs[<<0, INT_PIN_CFG>>], BIT_BYPASS_EN)
         THEN [a EXCEPT !.raised = TRUE, !.fail_at = IF st.fail_at = 1 THEN 0 ELSE @]
         ELSE [a EXCEPT !.fail_at = IF @ > 0 THEN @ - 1 ELSE 0]

\* lines 51-55: bank 0, reset pulse, wake
mb_init(st) ==
    sleep(write_byte_data(sleep(write_byte_data(write_byte_data(st, REG_BANK_SEL, 0),
                                                PWR_MGMT_1, 128), 100),
                          PWR_MGMT_1, 1), 10)

\* lines 60-61
mb_enable_bypass(st) == sleep(write_byte_data(st, INT_PIN_CFG, BIT_BYPASS_EN), 50)

\* lines 66-67
mb_read_wia(st) == mag_read_byte_data(mag_read_byte_data(st, AK09916_WIA1), AK09916_WIA2)

\* lines 71-73: what the script does after the two identity bytes
mb_after_wia(wia1, wia2) ==
    IF wia1 # WIA1_VALUE \/ wia2 # WIA2_VALUE THEN "mb_exit" ELSE "mb_setup"

\* lines 79-88: soft reset, mode, readback of the mode (printed only)
mb_setup(st) ==
    mag_read_byte_data(
        sleep(mag_write_byte_data(sleep(mag_write_byte_data(st, AK09916_CNTL3, 1), 100),
                                  AK09916_CNTL2, 6), 100),
        AK09916_CNTL2)

\* lines 109-145: one iteration given bit 0 of ST1
mb_sample(st, ready) ==
    LET a == mag_read_byte_data(st, AK09916_ST1)
        b == IF ready THEN mag_read_byte_data(a, AK09916_ST1 + 1) ELSE a
    IN  sleep(b, 200)

\* line 177
mb_disable_bypass(st) == write_byte_data(st, INT_PIN_CFG, 0)

\* the script's own state other than pc, the device and what it read
MbFrame ==
    /\ prog = "mag_bypass"
    /\ UNCHANGED <<prog, calls, bank_writes, last_call, wr_failed>>
    /\ UNCHANGED slv4_vars
    /\ UNCHANGED seq_vars
    /\ UNCHANGED <<ext, refreshes, sample, sample_gen>>
    /\ UNCHANGED <<i2c_mst_status, cell_kept, xfer_done, identity>>

\* no handler for transport errors: an exception ends the script
MbCall(st, next) ==
    /\ Commit(st)
    /\ pc' = IF st.raised THEN "mb_crashed" ELSE next

\* lines 51-55
MbInit ==
    /\ MbFrame
    /\ pc = "start"
    /\ \E f \in 0..3 :
        /\ FaultChoice(f)
        /\ LET st == mb_init(Here(f)) IN
            /\ Consumed(f, st)
            /\ MbCall(st, "mb_enable")
    /\ UNCHANGED <<wia, n_sample, valid_count>>
    /\ UNCHANGED n_verify

\* lines 60-61
MbEnableBypass ==
    /\ MbFrame
    /\ pc = "mb_enable"
    /\ \E f \in 0..1 :
        /\ FaultChoice(f)
        /\ LET st == mb_enable_bypass(Here(f)) IN
            /\ Consumed(f, st)
            /\ MbCall(st, "mb_verify")
    /\ UNCHANGED <<wia, n_sample, valid_count>>
    /\ UNCHANGED n_verify

\* lines 66-73: the identity bytes are read and compared; sys.exit(1) on a
\* mismatch
MbVerify ==
    /\ MbFrame
    /\ pc = "mb_verify"
    /\ \E f \in 0..2, w1 \in MagVals, w2 \in MagVals :
        /\ FaultChoice(f)
        /\ LET st == mb_read_wia(Here(f)) IN
            /\ Consumed(f, st)
            /\ st.raised => (w1 = 0 /\ w2 = 0)
            /\ MbCall(st, mb_after_wia(w1, w2))
            /\ wia' = IF st.raised THEN wia ELSE [w1 |-> w1, w2 |-> w2]
    /\ UNCHANGED <<n_sample, valid_count>>
    /\ UNCHANGED n_verify

\* lines 79-88
MbSetup ==
    /\ MbFrame
    /\ pc = "mb_setup"
    /\ \E f \in 0..3 :
        /\ FaultChoice(f)
        /\ LET st == mb_setup(Here(f)) IN
            /\ Consumed(f, st)
            /\ MbCall(st, "mb_loop")
    /\ UNCHANGED <<wia, n_sample, valid_count>>
    /\ UNCHANGED n_verify

\* lines 105-145, one iteration; lines 147-170 print only
MbSample ==
    /\ MbFrame
    /\ pc = "mb_loop"
    /\ \E f \in 0..2, ready \in BOOLEAN :
        /\ FaultChoice(f)
        /\ LET st == mb_sample(Here(f), ready) IN
            /\ Consumed(f, st)
            /\ MbCall(st, IF n_sample + 1 < MbSamples THEN "mb_loop" ELSE "mb_disable")
            /\ n_sample' = n_sample + 1
            /\ valid_count' = IF ready /\ ~st.raised THEN valid_count + 1 ELSE valid_count
    /\ UNCHANGED wia
    /\ UNCHANGED n_verify

\* lines 172-173: Ctrl+C inside the loop is caught and the script goes on
\* to line 176
MbInterrupt ==
    /\ MbFrame
    /\ pc = "mb_loop"
    /\ pc' = "mb_disable"
    /\ UNCHANGED <<dev_bank, dev, mag_srst, slept, faults, current_bank, lane_log,
                   both_on, acc_log, wia, n_sample, valid_count>>
    /\ UNCHANGED n_verify

\* lines 177-180
MbDisableBypass ==
    /\ MbFrame
    /\ pc = "mb_disable"
    /\ \E f \in 0..1 :
        /\ FaultChoice(f)
        /\ LET st == mb_disable_bypass(Here(f)) IN
            /\ Consumed(f, st)
            /\ MbCall(st, "mb_done")
    /\ UNCHANGED <<wia, n_sample, valid_count>>
    /\ UNCHANGED n_verify

Next ==
    \/ CallSetBankCached
    \/ CallSetBank
    \/ CallDebugReset
    \/ CallResetDevice
    \/ CallEnableBypass
    \/ CallDisableBypass
    \/ CallSlv4Read
    \/ Slv4PollStep
    \/ DimConfig
    \/ DimPoll
    \/ DimAfter
    \/ SeqStep
    \/ SeqVerifyCall
    \/ SeqPoll
    \/ SeqVerdict
    \/ SmtCheckWhoami
    \/ SmtInitBasic
    \/ SmtSetup
    \/ SmtScan
    \/ SmtWhoamiRead
    \/ SmtWhoamiVerdict
    \/ SmtWriteMode
    \/ SmtReadMode
    \/ SmtSlv0Config
    \/ SmtReadByte
    \/ HwRefresh
    \/ AsInit
    \/ AsReadCall
    \/ AsReadPoll
    \/ AsReadVerdict
    \/ AsWriteCall
    \/ AsWritePoll
    \/ AsSlv0Config
    \/ AsSample
    \/ DbgInitStep
    \/ DbgSlv4Call
    \/ DbgSlv4Poll
    \/ DbgSlv4Verdict
    \/ DbgMagWrite
    \/ DbgMagVerify
    \/ DbgSlv0
    \/ DbgSample
    \/ MbInit
    \/ MbEnableBypass
    \/ MbVerify
    \/ MbSetup
    \/ MbSample
    \/ MbInterrupt
    \/ MbDisableBypass

Spec == Init /\ [][Next]_vars

\* ------------------------------------------------------------------------
\* The bring-up run of try-all-sequences.py when every transport call
\* returns: no call raises, and the script, a single sequential thread,
\* takes its next step whenever it has one
\* ------------------------------------------------------------------------
SeqInit == Init /\ prog = "try_all_sequences"

SeqReturns ==
    \/ SeqStep /\ UNCHANGED faults
    \/ SeqVerifyCall /\ UNCHANGED faults
    \/ SeqPoll /\ UNCHANGED faults
    \/ SeqVerdict

\* line 160: the call of test_slv4_read is made. SeqVerifyCall is the only
\* step of SeqReturns that leaves "verify", and it is enabled in every state
\* at "verify", so fairness on this step is fairness on SeqVerifyCall
SeqVerifyCalled == pc = "verify" /\ pc' \in {"wait", "crashed"}

SpecReturns ==
    /\ SeqInit
    /\ [][SeqReturns]_vars
    /\ WF_vars(SeqStep)
    /\ WF_pc(SeqVerifyCalled)
    /\ WF_vars(SeqPoll)
    /\ WF_vars(SeqVerdict)

\* ------------------------------------------------------------------------
\* Bank-select claims
\* ------------------------------------------------------------------------
\* this step is a call of set_bank
SetBankStep == calls' = calls + 1 /\ last_call'.op = "set_bank"

\* the caching contract of one set_bank call
CachedContract ==
    IF current_bank = last_call'.n
    THEN bank_writes' = bank_writes /\ current_bank' = current_bank
    ELSE /\ bank_writes' = bank_writes + 1
         /\ IF last_call'.raised
            THEN current_bank' = current_bank
            ELSE current_bank' = last_call'.n /\ dev_bank' = last_call'.n

\* two calls in a row with the same bank: the second writes nothing
SecondCallSilent ==
    (last_call.op = "set_bank" /\ ~last_call.raised /\ last_call.n = last_call'.n)
        => bank_writes' = bank_writes

C2_ResetForcesBankSelect ==
    [][(SetBankStep /\ last_call.op = "reset" /\ ~last_call.raised)
          => last_call'.bank_attempts = 1]_vars

\* ------------------------------------------------------------------------
\* Poll claims
\* ------------------------------------------------------------------------
\* test_slv4_read has returned to its caller
Slv4Returned == slv4_pc = "ret"

\* C3: when the status register first shows SLV4_DONE on the K-th status read
\* (1 <= K <= 50), test_slv4_read returns success with the byte read from
\* I2C_SLV4_DI after exactly K status reads
C3_DoneOnKthPoll ==
    /\ ~(slv4_pc = "poll" /\ first_done > 0)
    /\ (Slv4Returned /\ first_done > 0) =>
            /\ first_done \in 1..PollCeiling
            /\ ret.success
            /\ ret.data = di_read
            /\ di_read # NoData
            /\ polls = first_done
            /\ ret.ms = first_done * PollIntervalMs

\* C3 witness: completion first shown on the last allowed status read, with a
\* data byte that differs from every status value with SLV4_DONE alone
C3_Witness ==
    /\ Slv4Returned
    /\ first_done = PollCeiling
    /\ ret.success
    /\ ret.data = 9

\* C4: when no status read shows SLV4_DONE (and none shows an error bit) the
\* poll ends as a timeout after exactly the ceiling of status reads: 50 in
\* test_slv4_read, 30 in debug-i2c-master.py; never fewer, never more
C4_TimeoutAtCeiling ==
    /\ polls <= PollCeiling
    /\ (slv4_pc = "poll") => polls < PollCeiling
    /\ (Slv4Returned /\ first_done = 0) =>
            /\ polls = PollCeiling
            /\ ret = [success |-> FALSE, data |-> 0, ms |-> 500]
    /\ (Slv4Returned /\ ~ret.success) => (first_done = 0 /\ polls = PollCeiling)
    /\ (prog = "debug_i2c_master") => polls <= DimPollCeiling
    /\ (prog = "debug_i2c_master" /\ pc = "dim_poll") => polls < DimPollCeiling
    /\ (prog = "debug_i2c_master" /\ pc \in {"dim_after", "dim_end"}
            /\ first_done = 0 /\ ~arb_seen) =>
            /\ polls = DimPollCeiling
            /\ ~ret.success
            /\ (pc = "dim_end" => "timeout" \in reported)

\* C4 witness: test_slv4_read timed out at its ceiling with no error bit seen
C4_Witness ==
    /\ prog = "slv4_read"
    /\ Slv4Returned
    /\ ~ret.success
    /\ ret.ms = 500
    /\ polls = PollCeiling
    /\ ~arb_seen
    /\ ~nack_seen

\* C5: when a status read shows LOST_ARB before any has shown SLV4_DONE, the
\* poll makes no further status read and does not return success
C5_ArbitrationLostStopsPoll ==
    arb_seen => (~read_after_arb /\ ~(Slv4Returned /\ ret.success))

\* C6: when a status read shows SLV4_NACK before SLV4_DONE has been seen, the
\* poll fails as NotAcknowledged: neither success nor Timeout
C6_NackIsNotAcknowledged ==
    (Slv4Returned /\ nack_seen) => Outcome(ret) \notin {"Success", "Mismatch", "Timeout"}

\* ------------------------------------------------------------------------
\* Recipe loop claims
\* ------------------------------------------------------------------------
\* the one-shot lane has just been programmed and triggered by the recipe loop
LaneTriggered == prog = "try_all_sequences" /\ slv4_pc = "poll" /\ polls = 0

\* C7: a one-shot request is made only while the auxiliary bus master is
\* Ready; in Disabled or Enabling the lane registers are not written
C7_OneShotOnlyWhenReady ==
    LaneTriggered => AuxState = "Ready"

\* C8: the steps of a recipe are called in list order, and once a step has
\* raised no later step of that recipe is called
C8_StepsInOrderAbortOnError ==
    (prog = "try_all_sequences") =>
        /\ \A j \in 1..Len(ran) : ran[j] = j
        /\ Len(ran) <= NSteps(seq)
        /\ (step_raised > 0) =>
                (Len(ran) = step_raised /\ pc \notin {"start", "steps"})
        /\ (pc \in {"verify", "wait", "found", "none"} /\ step_raised = 0) =>
                Len(ran) = NSteps(seq)
        /\ (pc \in {"start", "steps"}) => step = Len(ran) + 1

\* C8 witness: a recipe whose fourth step raised after three steps ran in
\* order, left with later steps never called
C8_Witness ==
    /\ prog = "try_all_sequences"
    /\ step_raised = 4
    /\ ran = <<1, 2, 3, 4>>
    /\ NSteps(seq) > 4
    /\ pc = "wait"

\* C9: the verification read of a recipe is issued only after every step of
\* the recipe has completed without error
C9_VerifyOnlyAfterAllSteps ==
    (prog = "try_all_sequences" /\ slv4_pc \in {"poll", "ret"}) =>
        (step_raised = 0 /\ Len(ran) = NSteps(seq))

\* C10: recipes are tried in list order and the loop stops at the first one
\* whose verification passes: every recipe before the current one was run and
\* failed, no recipe after it has been started, and a pass ends the loop
C10_FirstPassingRecipeWins ==
    (prog = "try_all_sequences") =>
        /\ \A r \in 1..NSeq :
            /\ (r < seq) => (r \in started /\ verdict[r] \in {"mismatch", "timeout"})
            /\ (r > seq) => (r \notin started /\ verdict[r] = "none")
        /\ (pc = "found") <=> (verdict[seq] = "pass")
        /\ (pc \in {"found", "none"}) => seq \in started

\* C10 witness: the third recipe is reported as working after the first two
\* were run and failed
C10_Witness ==
    /\ prog = "try_all_sequences"
    /\ pc = "found"
    /\ seq = 3
    /\ verdict[1] = "timeout"
    /\ verdict[2] = "mismatch"
    /\ verdict[3] = "pass"
    /\ started = {1, 2, 3}

\* C11: the bring-up ends in exactly one of two outcomes: a passing recipe is
\* reported, or, only after every recipe has been run and has failed, the
\* all-failed outcome is reported with a failure recorded for each recipe
C11_OneOfTwoOutcomes ==
    (prog = "try_all_sequences") =>
        /\ pc \in {"start", "steps", "verify", "wait", "found", "none"}
        /\ (pc = "found") => verdict[seq] = "pass"
        /\ (pc = "none") =>
                \A r \in 1..NSeq :
                    r \in started /\ verdict[r] \in {"mismatch", "timeout"}

\* a transport call of the recipe loop raises in this step
SeqRaises == prog = "try_all_sequences" /\ faults' = faults + 1

\* C12: an error raised while a recipe runs, in one of its steps or in its
\* verification read, is recorded as that recipe's failure and the loop goes
\* on: the rest of the recipe is skipped and the next recipe is still attempted
C12_RecipeErrorsRecorded ==
    [][SeqRaises =>
        IF pc \in {"start", "steps"}
        THEN step_raised' = step /\ pc' = "verify"
        ELSE /\ verdict'[seq] \in {"mismatch", "timeout"}
             /\ pc' = (IF seq < NSeq THEN "steps" ELSE "none")]_vars

\* ------------------------------------------------------------------------
\* Identity check claims
\* ------------------------------------------------------------------------
\* the recipe loop reports on the verification read that has just returned
VerdictStep ==
    prog = "try_all_sequences" /\ pc = "wait" /\ slv4_pc = "ret" /\ slv4_pc' = "idle"

\* test_mag_whoami returns to main()
WhoamiStep ==
    prog = "simple_mag_test" /\ pc = "smt_whoami" /\ pc' \in {"smt_mode", "smt_failed"}

\* the one-shot call just made asked for register reg and a byte b came back
LaneRead(reg, b) ==
    /\ \E j \in 1..Len(lane_log) : lane_log[j].reg = reg
    /\ di_read = b

\* C13 (as amended): a recipe of try-all-sequences.py passes exactly when its
\* one verification read, of WIA1, completes and returns 0x48 (WIA2 is not
\* read there); a read that completes with another byte is reported as a
\* mismatch, neither a pass nor a timeout.  test_mag_whoami of
\* simple-mag-test.py succeeds exactly when the two bytes it read for WIA1 and
\* WIA2 are 0x48 and 0x09.
C13_IdentityVerdict ==
    [][/\ VerdictStep =>
            /\ lane_log[1].reg = AK09916_WIA1
            /\ (verdict'[seq] = "pass") <=> (ret.success /\ ret.data = WIA1_VALUE)
            /\ (verdict'[seq] = "mismatch") <=> (ret.success /\ ret.data # WIA1_VALUE)
            /\ (verdict'[seq] = "timeout") <=> ~ret.success
            /\ (pc' = "found") <=> (ret.success /\ ret.data = WIA1_VALUE)
            /\ ret.success => (first_done > 0 /\ ret.data = di_read)
       /\ WhoamiStep =>
            ((pc' = "smt_mode") <=> (wia.w1 = WIA1_VALUE /\ wia.w2 = WIA2_VALUE))
      ]_vars

\* C13 witness: the second recipe passed after the verification read of the
\* first completed with a byte other than 0x48
C13_Witness ==
    /\ prog = "try_all_sequences"
    /\ pc = "found"
    /\ seq = 2
    /\ verdict[1] = "mismatch"
    /\ verdict[2] = "pass"

\* C13 (original): a recipe passes exactly when the verification reads of both
\* identity registers complete and return 0x48 and 0x09
C13_Original ==
    [][VerdictStep =>
        ((verdict'[seq] = "pass") <=>
            (ret.success /\ ret.data = WIA1_VALUE
                /\ LaneRead(AK09916_WIA2, WIA2_VALUE)))]_vars

\* ------------------------------------------------------------------------
\* Passthrough claims
\* ------------------------------------------------------------------------
\* C14: in every device state a bring-up reaches, the five recipes of
\* try-all-sequences.py run back to back and setup_mag_i2c_master of
\* simple-mag-test.py, runs where a step raises included, the passthrough bit
\* and the master-enable bit are never both set
C14_PassthroughMasterExclusive ==
    (prog \in {"try_all_sequences", "simple_mag_test"}) =>
        (~both_on /\ ~BothOn(dev))

\* C14 witness: the fourth recipe, which resets the magnetometer over the
\* passthrough and then enables the master, in a run where a step has raised
C14_Witness ==
    /\ prog = "try_all_sequences"
    /\ seq = 4
    /\ mag_srst
    /\ faults = 1
    /\ BitSet(dev[<<0, USER_CTRL>>], BIT_I2C_MST_EN)
    /\ pc = "wait"

\* INT_PIN_CFG without its bypass bit
OtherBits(v) == IF BitSet(v, BIT_BYPASS_EN) THEN v - BIT_BYPASS_EN ELSE v

\* this step is a passthrough write that reached the device
PassthroughStep ==
    /\ prog = "passthrough"
    /\ calls' = calls + 1
    /\ ~last_call'.raised

WriteRequested ==
    IF prog = "all_sensors" /\ pc \in {"as_write1_wait", "as_write2_wait"}
    THEN {as_writes[AsWriteIndex]}
    ELSE IF prog = "simple_mag_test" /\ pc = "smt_readback"
    THEN {[reg |-> AK09916_CNTL2, value |-> 6]}
    ELSE {}

\* C15: a one-shot write is single-phase: the lane address with the direction
\* bit clear, the register offset and the data-out byte are all written
\* before the lane's enable bit is set, and the enable bit is set exactly once
\* per requested write
C15_WriteSinglePhase ==
    \A w \in WriteRequested :
        /\ Len(lane_log) = 1
        /\ lane_log[1].addr = AK09916_ADDR
        /\ lane_log[1].reg = w.reg
        /\ lane_log[1].do = w.value
        /\ BitSet(lane_log[1].ctrl, BIT_SLAVE_EN)

\* C16: the data-in register is returned as the result of a one-shot read
\* only after a status read of that transaction has shown completion
C16_DataInOnlyAfterDone ==
    (di_read # NoData) => first_done > 0

\* ------------------------------------------------------------------------
\* Mirrored buffer claims
\* ------------------------------------------------------------------------
\* byte k of the buffer once g refreshes have been made
Deposited(g, k) == IF g = 0 THEN PreConfig[k] ELSE Snapshot(g)[k]

\* C17: once the continuous lane is configured, a host read of the mirrored
\* buffer made before any hardware refresh returns the pre-configuration
\* contents, and each byte read after a refresh returns the byte deposited by
\* the most recent refresh
C17_MirrorReadsLatest ==
    (prog \in {"simple_mag_test", "all_sensors"}) =>
        /\ Len(sample) = Len(sample_gen)
        /\ \A k \in 1..Len(sample) : sample[k] = Deposited(sample_gen[k], k)

\* C17 witness: an iteration of the byte-by-byte loop of simple-mag-test.py
\* whose first byte was read before any refresh and whose last byte was read
\* after the second refresh
C17_Witness ==
    /\ prog = "simple_mag_test"
    /\ MirrorOn
    /\ Len(sample) = SmtReadLen
    /\ sample_gen[1] = 0
    /\ sample[1] = 0
    /\ sample_gen[SmtReadLen] = 2
    /\ sample[SmtReadLen] = Snapshot(2)[SmtReadLen]

\* ------------------------------------------------------------------------
\* Register map claims
\* ------------------------------------------------------------------------
\* where the status reads and the data-in read of test_slv4_read land: the
\* bank selected at line 55 stays selected for both
StatusLoc == <<dev_bank, I2C_MST_STATUS>>

DataInLoc == <<dev_bank, I2C_SLV4_DI>>

\* C18: the transaction-status register and the one-shot data-in register are
\* two distinct (bank, address) locations: a completed one-shot read has read
\* its status and its data from different places
C18_StatusAndDataInDistinct ==
    (slv4_pc = "ret" /\ ret.success) => StatusLoc # DataInLoc

\* ------------------------------------------------------------------------
\* Magnetometer initialisation claims
\* ------------------------------------------------------------------------
\* C20: a one-shot write whose completion is never observed is a Timeout the
\* caller acts on: after a timed-out soft-reset write the initialisation
\* makes no further downstream write, and after any timed-out write it does
\* not configure continuous lane 0
C20_WriteTimeoutStopsInit ==
    (prog = "all_sensors") =>
        /\ (AK09916_CNTL3 \in wr_failed) =>
                pc \notin {"as_write2_wait", "as_verify", "as_verify_wait",
                           "as_slv0", "as_loop", "as_done"}
        /\ (wr_failed # {}) => ~BitSet(dev[<<3, I2C_SLV0_CTRL>>], BIT_SLAVE_EN)

\* ------------------------------------------------------------------------
\* Snapshot claims
\* ------------------------------------------------------------------------
\* the refresh a byte of the mirrored buffer was deposited by (0: none yet)
GenOf(v) == v \div 16

\* C21: host visibility of the mirrored buffer is non-atomic: when a hardware
\* refresh is interleaved between two consecutive single-register reads of one
\* snapshot in test_mag_continuous_read, the two bytes the host holds come
\* from two different refreshes
C21_SnapshotNonAtomic ==
    (prog = "simple_mag_test") =>
        \A j \in 1..(Len(sample) - 1) :
            (sample_gen[j] # sample_gen[j + 1]) =>
                GenOf(sample[j]) # GenOf(sample[j + 1])

\* C21 witness: a complete eight-read snapshot of test_mag_continuous_read
\* with a refresh between its third and fourth read
C21_Witness ==
    /\ prog = "simple_mag_test"
    /\ Len(sample) = SmtReadLen
    /\ sample_gen[3] = 1
    /\ sample_gen[4] = 2
    /\ GenOf(sample[3]) = 1
    /\ GenOf(sample[4]) = 2

\* C22: with Slave 0 mirroring nine bytes from ST1 on, the data-ready bit is
\* taken from the first mirrored byte and the overflow bit from the last
\* mirrored byte, the ninth of the snapshot
C22_StatusFromFirstAndLast ==
    /\ (prog = "all_sensors" /\ n_sample > 0) =>
            /\ as_st1(sample) = sample[1]
            /\ as_st2(sample) = sample[MirrorLen]
    /\ (prog = "simple_mag_test" /\ Len(sample) = SmtReadLen) =>
            sample[SmtReadLen] = Deposited(sample_gen[SmtReadLen], MirrorLen)

\* C23: in the 20-sample read loop a sample is counted as valid only when bit
\* 0 (data ready) of the first mirrored byte of that sample's snapshot is set:
\* valid_count goes up by one exactly on such samples, by nothing otherwise,
\* and never exceeds the number of samples taken, which never exceeds 20
C23_ValidCountsReadySamples ==
    [][ (prog = "all_sensors") =>
            /\ (n_sample' = n_sample) => valid_count' = valid_count
            /\ (n_sample' # n_sample) =>
                    /\ n_sample' = n_sample + 1
                    /\ valid_count' = valid_count +
                           (IF BitSet(sample'[1], BIT_DRDY) THEN 1 ELSE 0)
            /\ valid_count' <= n_sample'
            /\ n_sample' <= AsSamples
      ]_vars

\* C23 witness: the loop has ended after 20 samples of which the first was
\* read before any refresh (not ready) and the other 19 were valid
C23_Witness ==
    /\ prog = "all_sensors"
    /\ pc = "as_done"
    /\ n_sample = AsSamples
    /\ valid_count = AsSamples - 1
    /\ BitSet(sample[1], BIT_DRDY)

\* ------------------------------------------------------------------------
\* Poll outcome claims of debug-i2c-master.py
\* ------------------------------------------------------------------------
\* the poll of debug-i2c-master.py has ended on a status byte it read
DimPollEnded ==
    /\ prog = "debug_i2c_master"
    /\ pc \in {"dim_after", "dim_end"}

\* C24: within one status read the completion bit is tested before the
\* arbitration-lost bit: a status byte with both bits set yields success, and
\* lost arbitration is reported only for a status byte with LOST_ARB set and
\* SLV4_DONE clear
C24_DoneTestedBeforeLostArb ==
    DimPollEnded =>
        /\ BitSet(i2c_mst_status, BIT_SLV4_DONE) =>
                (ret.success /\ "done" \in reported /\ "lost_arb" \notin reported)
        /\ ("lost_arb" \in reported) <=>
                (BitSet(i2c_mst_status, BIT_LOST_ARB)
                 /\ ~BitSet(i2c_mst_status, BIT_SLV4_DONE))

\* C24 witness: the poll ended on a status byte with both bits set
C24_Witness ==
    /\ DimPollEnded
    /\ i2c_mst_status = BIT_SLV4_DONE + BIT_LOST_ARB
    /\ ret.success

\* C25: each poll ends with exactly one outcome among success, lost
\* arbitration and timeout: a poll that stopped on the LOST_ARB bit is not
\* also reported as a timeout
C25_ExactlyOneOutcome ==
    (prog = "debug_i2c_master" /\ pc = "dim_end") =>
        Cardinality(reported \cap {"done", "lost_arb", "timeout"}) = 1

\* ------------------------------------------------------------------------
\* Ordering claims of the initialisation
\* ------------------------------------------------------------------------
\* the scripts that enable the master and then use the one-shot lane
EnablingProgs == {"try_all_sequences", "simple_mag_test", "all_sensors"}

\* C26: in every recipe and script that runs without a step error, at least
\* 100 ms of delay lie between the write that sets the master-enable bit and
\* the first (and so every) write that sets the enable bit of the one-shot lane
C26_SettleBeforeOneShot ==
    (prog \in EnablingProgs /\ faults = 0) =>
        \A k \in 1..Len(lane_log) :
            /\ BitSet(lane_log[k].user_ctrl, BIT_I2C_MST_EN)
            /\ lane_log[k].slept >= SettleMs

\* C26 witness: the fifth recipe has run without error and its verification
\* read has triggered the lane
C26_Witness ==
    /\ prog = "try_all_sequences"
    /\ faults = 0
    /\ seq = NSeq
    /\ Len(lane_log) = 1
    /\ lane_log[1].slept = SettleMs
    /\ BitSet(lane_log[1].user_ctrl, BIT_I2C_MST_EN)

\* the two master configuration registers of bank 3: rate divider and
\* clock / stop policy
ConfigRegs == {I2C_MST_ODR_CONFIG, I2C_MST_CTRL}

\* C27: in every recipe, and in setup_mag_i2c_master, both master
\* configuration registers are written while bank 3 is selected and before
\* the write that sets the master-enable bit: every write of one of them lands
\* in bank 3 with the master not enabled, and whenever the master is enabled
\* both have been written since the reset
C27_ConfigBeforeEnable ==
    (prog \in {"try_all_sequences", "simple_mag_test"}) =>
        /\ \A k \in 1..Len(acc_log) :
                (acc_log[k].wr /\ acc_log[k].reg \in ConfigRegs) =>
                    (acc_log[k].bank = 3 /\ ~acc_log[k].en)
        /\ BitSet(dev[<<0, USER_CTRL>>], BIT_I2C_MST_EN) =>
                (dev[<<3, I2C_MST_ODR_CONFIG>>] # 0 /\ dev[<<3, I2C_MST_CTRL>>] # 0)

\* ------------------------------------------------------------------------
\* Bank claims
\* ------------------------------------------------------------------------
\* the bank each register used by try-all-sequences.py belongs to (lines
\* 14-32): power, passthrough, master enable and low-power config in bank 0,
\* master config, one-shot lane and status in bank 3
HomeBank(reg) ==
    IF reg \in {PWR_MGMT_1, PWR_MGMT_2, USER_CTRL, INT_PIN_CFG, LP_CONFIG} THEN 0 ELSE 3

\* C28: across the whole run of try-all-sequences.py, recipes back to back
\* and runs where a step raises included, every register access lands in the
\* bank the register belongs to
C28_AccessesInHomeBank ==
    (prog = "try_all_sequences") =>
        \A k \in 1..Len(acc_log) : acc_log[k].bank = HomeBank(acc_log[k].reg)

\* C28 witness: the first recipe was cut short by a raising step, its
\* verification read left bank 3 selected, and the reset step of the second
\* recipe has written PWR_MGMT_1 in bank 0
C28_Witness ==
    /\ prog = "try_all_sequences"
    /\ seq = 2
    /\ faults = 1
    /\ verdict[1] # "none"
    /\ Len(acc_log) = 2
    /\ acc_log[1].reg = PWR_MGMT_1
    /\ acc_log[1].bank = 0

\* C29: in test-all-sensors-debug.py, at every register read or write the
\* cached bank current_bank equals the bank selected in the device (a device
\* reset returning the device to bank 0)
C29_CacheMatchesDevice ==
    (prog = "all_sensors_debug") =>
        \A k \in 1..Len(acc_log) : acc_log[k].cache = acc_log[k].bank

\* C29 witness: STEP 6 has dumped bank 0 and then bank 3 with the cache
\* following the device, after the reset of STEP 1 and the bank 2 of STEP 3
C29_Witness ==
    /\ prog = "all_sensors_debug"
    /\ pc = "dbg_slv4"
    /\ Len(acc_log) = 16
    /\ acc_log[7].cache = 0 /\ acc_log[7].bank = 0
    /\ acc_log[16].cache = 3 /\ acc_log[16].bank = 3

\* C30: when the bank-select write inside the caching set_bank raises, the
\* error propagates after that single attempt and the cached bank is left
\* unchanged, so a later set_bank with the same bank attempts the write again
C30_FailedSelectKeepsCache ==
    [][ (prog = "bank_cached" /\ SetBankStep) =>
            /\ last_call'.raised =>
                    /\ last_call'.bank_attempts = 1
                    /\ bank_writes' = bank_writes + 1
                    /\ faults' = faults + 1
                    /\ current_bank' = current_bank
                    /\ dev_bank' = dev_bank
            /\ (last_call.op = "set_bank" /\ last_call.raised
                    /\ last_call'.n = last_call.n) =>
                    last_call'.bank_attempts = 1
      ]_vars

\* C30 witness: with bank 2 cached, a set_bank(3) has raised and bank 2 is
\* still the cached bank
C30_Witness ==
    /\ prog = "bank_cached"
    /\ last_call.op = "set_bank"
    /\ last_call.raised
    /\ last_call.n = 3
    /\ last_call.bank_attempts = 1
    /\ last_call.cache_before = 2
    /\ current_bank = 2

\* ------------------------------------------------------------------------
\* One-shot read: triggers, aliasing of status and data
\* ------------------------------------------------------------------------
\* the scripts whose one-shot read is test_slv4_read
Slv4ReadProgs == {"slv4_read", "try_all_sequences", "all_sensors"}

\* the lane registers still hold what the trigger recorded in t saw
LaneUntouched(t) ==
    /\ dev[<<3, I2C_SLV4_ADDR>>] = t.addr
    /\ dev[<<3, I2C_SLV4_REG>>] = t.reg
    /\ dev[<<3, I2C_SLV4_CTRL>>] = t.ctrl

\* C31: one call of test_slv4_read sets the lane's enable bit exactly once,
\* before the first status read, and neither re-triggers the lane nor rewrites
\* a lane register while polling or after a timeout: from the first poll
\* iteration to the return the call has made one trigger, the lane registers
\* are as that trigger left them, and every access of the poll is a read
C31_EnableSetOnce ==
    (prog \in Slv4ReadProgs /\ slv4_pc \in {"poll", "ret"}) =>
        /\ Len(lane_log) = 1
        /\ BitSet(lane_log[1].ctrl, BIT_SLAVE_EN)
        /\ LaneUntouched(lane_log[1])
        /\ (polls > 0) => \A k \in 1..Len(acc_log) : ~acc_log[k].wr

\* C31 witness: a verification read of try-all-sequences.py has timed out
\* after 50 status reads
C31_Witness ==
    /\ prog = "try_all_sequences"
    /\ slv4_pc = "ret"
    /\ ~ret.success
    /\ polls = PollCeiling
    /\ Len(lane_log) = 1
    /\ acc_log = <<PollRead(I2C_MST_STATUS)>>

\* C32: in test_slv4_read the last status read and the data read are reads of
\* one device location, address 0x17 with bank 3 selected, with no host write
\* in between; so whenever the device did not change that location between
\* the two reads, a result returned as success has bit 0x40 set in its data
\* byte, and a byte with bit 0x40 clear, such as 0x09, is not returned as a
\* success
C32_SuccessDataHasDoneBit ==
    (prog \in Slv4ReadProgs /\ slv4_pc = "ret" /\ ret.success) =>
        /\ Len(acc_log) = 2
        /\ \A k \in 1..2 : ~acc_log[k].wr /\ acc_log[k].bank = 3
        /\ acc_log[1].reg = I2C_MST_STATUS
        /\ acc_log[2].reg = I2C_SLV4_DI
        /\ acc_log[1].reg = acc_log[2].reg
        /\ cell_kept => (BitSet(ret.data, BIT_SLV4_DONE) /\ ret.data # WIA2_VALUE)

\* C32 witness: a verification read of try-all-sequences.py returned 0x48 as
\* the identity byte when register 0x17 held 0x48 (SLV4_DONE | SLV4_NACK) at
\* both reads
C32_Witness ==
    /\ prog = "try_all_sequences"
    /\ slv4_pc = "ret"
    /\ ret.success
    /\ cell_kept
    /\ ret.data = WIA1_VALUE

\* ------------------------------------------------------------------------
\* One-shot write: which transfer a result of True stands for
\* ------------------------------------------------------------------------
\* test_slv4_write has just returned True to STEP 8
WriteReturnedTrue ==
    /\ prog = "all_sensors"
    /\ pc \in {"as_write2", "as_verify"}
    /\ first_done > 0

\* C33: test_slv4_write returns True only if the transfer triggered by its
\* last write of the control register, the one made after the data-out
\* register holds the requested byte, has completed; a completion bit raised
\* by an earlier trigger of the same call is not taken as completion
C33_TrueOnlyAfterLastTransfer ==
    WriteReturnedTrue =>
        /\ lane_log[Len(lane_log)].do = as_writes[IF pc = "as_write2" THEN 1 ELSE 2].value
        /\ xfer_done = Len(lane_log)

\* ------------------------------------------------------------------------
\* Continuous lane 0 and the identity check
\* ------------------------------------------------------------------------
\* the scripts that configure continuous lane 0
MirrorProgs == {"all_sensors", "simple_mag_test", "all_sensors_debug"}

\* a register of continuous lane 0 has been written since the reset (the
\* scripts write a non-zero value to each of the three)
Slv0Written ==
    \E r \in {I2C_SLV0_ADDR, I2C_SLV0_REG, I2C_SLV0_CTRL} : dev[<<3, r>>] # 0

\* where each script stops when its identity check fails
IdentityExit ==
    CASE prog = "all_sensors" -> {"as_exit"}
      [] prog = "simple_mag_test" -> {"smt_failed"}
      [] prog = "all_sensors_debug" -> {"dbg_exit", "dbg_crashed"}
      [] OTHER -> {}

\* C34: continuous lane 0 is configured only after a one-shot identity read
\* of the downstream device has completed and returned the expected identity
\* value(s); on every path where the identity check fails the script stops
\* without writing a continuous-lane register
C34_MirrorOnlyAfterIdentity ==
    (prog \in MirrorProgs) =>
        /\ Slv0Written => (identity.checked /\ identity.done /\ identity.passed)
        /\ (identity.checked /\ ~identity.passed) =>
                (~Slv0Written /\ pc \in IdentityExit)

\* the same without the completion conjunct
PassedBeforeMirror ==
    (prog \in MirrorProgs) =>
        /\ Slv0Written => (identity.checked /\ identity.passed)
        /\ (identity.checked /\ ~identity.passed) =>
                (~Slv0Written /\ pc \in IdentityExit)

\* ------------------------------------------------------------------------
\* test-mag-bypass.py: passthrough at the end of the script
\* ------------------------------------------------------------------------
\* the script has ended: normally, by sys.exit(1), or by an exception
MbTerminated == prog = "mag_bypass" /\ pc \in {"mb_done", "mb_exit", "mb_crashed"}

\* C35: whenever test-mag-bypass.py terminates after having enabled
\* passthrough, the passthrough bit is clear in the device: passthrough is
\* disabled on every exit path, the exit of a failed identity check included
C35_PassthroughOffAtExit ==
    MbTerminated => ~BitSet(dev[<<0, INT_PIN_CFG>>], BIT_BYPASS_EN)

\* ------------------------------------------------------------------------
\* Termination of the bring-up run
\* ------------------------------------------------------------------------
\* the recipe loop has been left: by the break of line 167 or by exhausting
\* the list
SeqTerminated == prog = "try_all_sequences" /\ pc \in {"found", "none"}

\* the loops of the run are within their ceilings
SeqWithinBounds ==
    /\ n_verify <= NSeq
    /\ polls <= PollCeiling
    /\ i < PollCeiling
    /\ seq \in 1..NSeq
    /\ step <= NSteps(seq) + 1
    /\ Len(ran) <= NSteps(seq)

\* C36: provided every transport call returns, the bring-up run of
\* try-all-sequences.py terminates: it issues at most 5 verification reads,
\* each making at most 50 status reads, and no poll loop or recipe loop
\* repeats beyond those bounds
C36_BringUpTerminates == []SeqWithinBounds /\ <>SeqTerminated

\* C36 witness: the longest run: all five recipes were tried and each
\* verification read timed out after 50 status reads
C36_Witness ==
    /\ SeqTerminated
    /\ pc = "none"
    /\ n_verify = NSeq
    /\ \A r \in 1..NSeq : verdict[r] = "timeout"

====
